---- MODULE Spec2Model ----
(***************************************************************************)
(* Model of BeeRef's native file persistence (beeref/fileio/sql.py):       *)
(* the SQLiteIO engine with its connection handling, migration, read and   *)
(* write pipelines and the handle_sqlite_errors wrapper, together with the *)
(* parts of the scene (beeref/scene.py, beeref/items.py) it talks to.      *)
(*                                                                         *)
(* One container path is modelled.  `file' is the committed content of    *)
(* the file at that path; a connection works on its own view `conn.db'     *)
(* which reaches the file on commit only.  Every statement that touches    *)
(* the disk may fail: an action picks at most one injected failure from    *)
(* its failure points, as long as the budget `faults' lasts.               *)
(***************************************************************************)
EXTENDS Integers, Sequences, FiniteSets, TLC

\* ------------------------------------------------------------------ bounds
MaxItems  == 2      \* items of the scene at the start
MaxStored == 2      \* rows of the container at the start
MaxWrites == 1      \* write() operations in one run
MaxReads  == 1      \* read() operations in one run
MaxFaults == 2      \* injected disk failures in one run

\* ------------------------------------------------------- program constants
USER_VERSION   == 2
APPLICATION_ID == 2060242126

None == 0                       \* Python's None for save_id / original_save_id

EmptyFn == [n \in {} |-> 0]

\* Restriction of a function to a subset of its domain
Restrict(f, S) == [n \in S |-> f[n]]

\* f with the pair (k, v) added or replaced
Put(f, k, v) == [n \in (DOMAIN f) \cup {k} |-> IF n = k THEN v ELSE f[n]]

MaxOf(S) == IF S = {} THEN 0 ELSE CHOOSE m \in S : \A n \in S : n <= m

\* --------------------------------------------------------------- encodings
\* (variant: the document is not written)
JsonDumpsNothing(doc) == <<"json", 0>>

\* json.dumps / json.loads of the payload document (items.data column)
JsonDumps(doc) == <<"json", doc>>
JsonNull       == <<"null">>
JsonLoadable(col) == col[1] = "json"
JsonLoads(col) == col[2]

\* migration 2: json_object('filename', filename)
JsonObjectFilename(fname) == <<"json", fname>>

\* BeePixmapItem.pixmap_to_bytes / pixmap_from_bytes: a live pixmap is
\* encoded to image bytes; bytes that are no image decode to the null pixmap
PixmapToBytes(pm) == <<"img", pm>>
CorruptBytes      == <<"junk">>
NullPixmap        == "null"
\* (variant: every byte string gives a pixmap)
PixmapFromAnyBytes(bytes) == bytes[Len(bytes)]
PixmapFromBytes(bytes) == IF bytes[1] = "img" THEN bytes[2] ELSE NullPixmap

\* BeePixmapItem.get_filename_for_export: the name starts with the save id
GetFilenameForExport(save_id) == <<"name", save_id>>

\* ------------------------------------------------------------------ schema
\* SCHEMA creates the tables items and sqlar in their version 2 shape
SchemaNone == "no tables"
SchemaV1   == "version 1"     \* items has the column filename and no column data
SchemaV2   == "version 2"

\* MIGRATIONS: target version -> statements, in registration order
MigrationTargets == {2}
AddColumnData       == "ALTER TABLE items ADD COLUMN data JSON"
SetDataFromFilename == "UPDATE items SET data = json_object('filename', filename)"
MIGRATIONS == [t \in MigrationTargets |-> <<AddColumnData, SetDataFromFilename>>]

\* Other statements the connection handling runs
BeginTransaction == "BEGIN TRANSACTION"
AppIdPragma      == "PRAGMA application_id"
UserVersionQuery == "PRAGMA user_version"

\* The database a connection sees / the content of a container file
EmptyDb == [valid   |-> TRUE,      \* FALSE: the bytes are no SQLite database
            version |-> 0,         \* PRAGMA user_version
            appid   |-> FALSE,     \* PRAGMA application_id = APPLICATION_ID
            schema  |-> SchemaNone,
            items   |-> EmptyFn,   \* id -> [type, geom, data, legacy]
            sqlar   |-> EmptyFn]   \* item_id -> [name, bytes, mtime]

GarbageDb == [EmptyDb EXCEPT !.valid = FALSE]

NoFile == [exists |-> FALSE, perm |-> "rw", db |-> EmptyDb]

\* The engine's connection attributes: _connection (attr; open or closed),
\* _cursor, _tmpdir; `base' is the content of the temporary copy when the
\* connection is attached to it (target = "tmp")
NoConn == [attr |-> FALSE, open |-> FALSE, cursor |-> FALSE, tmpdir |-> FALSE,
           target |-> "path", intxn |-> FALSE, fk |-> FALSE, base |-> EmptyDb]

\* ------------------------------------------------------------- exceptions
NoExc == [cls |-> "none", str |-> "none", msg |-> "", filename |-> ""]
Exc(cls, str) == [cls |-> cls, str |-> str, msg |-> "", filename |-> ""]

\* sqlite3 errors raised by failing statements
IOError        == Exc("sqlite3.OperationalError", "disk I/O error")
UnableToOpen   == Exc("sqlite3.OperationalError", "unable to open database file")
NotADatabase   == Exc("sqlite3.DatabaseError", "file is not a database")
ReadonlyDb     == Exc("sqlite3.OperationalError", "attempt to write a readonly database")
NoSuchTable    == Exc("sqlite3.OperationalError", "no such table")
NoSuchColumn   == Exc("sqlite3.OperationalError", "no such column")
SqlError       == Exc("sqlite3.OperationalError", "statement failed")
Constraint     == Exc("sqlite3.IntegrityError", "UNIQUE constraint failed")
\* Python errors
KeyErr         == Exc("KeyError", "key")
JsonTypeError  == Exc("TypeError", "the JSON object must be str, bytes or bytearray")
WriteReadonly  == Exc("sqlite3.OperationalError", "Attempt to write to a readonly database")
UnboundLocal   == Exc("UnboundLocalError", "cannot access local variable 'e'")
\* BeeFileIOError(msg=..., filename=...) keeps msg and filename as attributes;
\* its __init__ passes nothing on to Exception, so str() of it is empty
BeeFileIOError(msg) == [cls |-> "BeeFileIOError", str |-> "", msg |-> msg,
                        filename |-> "path"]

\* ------------------------------------------------------------------- scene
\* An item of the scene.  kind "error" is a BeeErrorItem: it has no save_id
\* attribute (it is not saved) and carries original_save_id in `orig'.
\* geom stands for the transform fields (x, y, z, scale, rotation, flip), doc
\* for the payload document (get_extra_save_data), pm for the pixmap.
Item(kind, save_id, orig, geom, doc, pm) ==
    [kind |-> kind, save_id |-> save_id, orig |-> orig, geom |-> geom, doc |-> doc,
     pm |-> pm]

\* hasattr(item, 'save_id')
Saveable(it) == it.kind # "error"

\* BeeGraphicsScene.items_for_save: positions of the saveable items, in order
ItemsForSave(sc) == SelectSeq([i \in 1..Len(sc) |-> i], LAMBDA i : Saveable(sc[i]))

\* (variant: clear_save_ids leaves the save ids as they are)
KeepSaveIds(sc) == sc

\* BeeGraphicsScene.clear_save_ids
ClearSaveIds(sc) ==
    [i \in 1..Len(sc) |-> IF Saveable(sc[i]) THEN [sc[i] EXCEPT !.save_id = None]
                                               ELSE sc[i]]

\* {item.original_save_id for item in scene.items_by_type('error')}
ErrorItemIds(sc) == {sc[i].orig : i \in {j \in 1..Len(sc) : sc[j].kind = "error"}}

\* identities held by the saveable items of a scene
LiveIds(sc) == {sc[i].save_id : i \in {j \in 1..Len(sc) : Saveable(sc[j])}} \ {None}

\* ------------------------------------------------- the engine's environment
\* The operators below run a piece of SQLiteIO on a record w of everything
\* that piece can touch: the file, the scene, the connection attributes,
\* create_new, the number of open connections, whether the file was removed,
\* what the connection handling did since the connection was last closed
\* (log: "connect", the statements _migrate passed to ex() or fetchone(),
\* "write_meta", "commit", "opened" when _establish_connection returned),
\* and the exception it ends with (NoExc when it returns).  `f' names the
\* statement an injected disk failure hits ("none": nothing fails).
Raise(w, e) == [w EXCEPT !.exc = e]
Failed(w)   == w.exc.cls # "none"

\* The database the connection is attached to
View(w) == IF w.conn.target = "tmp" THEN w.conn.base ELSE w.file.db

\* Statements that write fail on a file the OS protects against writing
\* (the temporary copy is always writable)
WriteProtected(w) == w.conn.target = "path" /\ w.file.perm = "ro"

\* A commit makes db the content of what the connection is attached to
Commit(w, db) ==
    IF w.conn.target = "tmp"
    THEN [w EXCEPT !.conn.base = db, !.conn.intxn = FALSE]
    ELSE [w EXCEPT !.file.db = db, !.conn.intxn = FALSE]

\* (variant: a call that closes a connection leaves the temporary directory
\* to the next call)
CloseOneAtATime(w) ==
    [w EXCEPT !.conn = IF w.conn.attr THEN [NoConn EXCEPT !.tmpdir = w.conn.tmpdir]
                       ELSE NoConn,
              !.nopen = IF w.conn.attr /\ w.conn.open THEN @ - 1 ELSE @,
              !.log = <<>>]

\* SQLiteIO._close_connection (the log is that of the connection handling
\* since the engine last closed its connection)
CloseConnection(w) ==
    [w EXCEPT !.conn = NoConn,
              !.nopen = IF w.conn.attr /\ w.conn.open THEN @ - 1 ELSE @,
              !.log = <<>>]

\* sqlite3.connect(uri): mode=rw (readonly engine) does not create the file;
\* otherwise a missing file is created empty.  The connection and cursor
\* attributes are rebound; a connection they held before is not closed.
Connect(w, ro) ==
    IF ro /\ ~w.file.exists
    THEN Raise(w, UnableToOpen)
    ELSE [w EXCEPT !.file  = IF @.exists THEN @
                             ELSE [exists |-> TRUE, perm |-> "rw", db |-> EmptyDb],
                   !.conn  = [@ EXCEPT !.attr = TRUE, !.open = TRUE, !.cursor = TRUE,
                                       !.target = "path", !.intxn = FALSE,
                                       !.fk = FALSE, !.base = EmptyDb],
                   !.nopen = @ + 1,
                   !.log   = Append(@, "connect")]

\* The statements of MIGRATIONS[2] applied to a version 1 database
MigrateToV2(db) ==
    [db EXCEPT !.schema = SchemaV2,
               !.items  = [n \in DOMAIN db.items |->
                              [db.items[n] EXCEPT
                                  !.data = JsonObjectFilename(db.items[n].legacy)]]]

\* write_meta without its user_version pragma
WriteMetaNoVersion(db) == [db EXCEPT !.appid = TRUE]

\* SQLiteIO.write_meta: application_id, user_version (foreign_keys is set
\* by the caller: the pragma does nothing inside a transaction)
WriteMeta(db) == [db EXCEPT !.appid = TRUE, !.version = USER_VERSION]

\* (variant: the pragma is taken to have been written, no copy is made)
ProbeWithoutCopy(w, f) == [w EXCEPT !.log = Append(@, AppIdPragma)]

\* The read-only branch of _migrate: try the application_id pragma on the
\* file; if it cannot be written, close, copy it to a temporary directory
\* and connect to the copy
MigrateReadonlyProbe(w, f) ==
    IF ~WriteProtected(w)
    THEN [w EXCEPT !.file.db.appid = TRUE, !.log = Append(@, AppIdPragma)]
    ELSE LET closed == [w EXCEPT !.conn.open = FALSE, !.conn.tmpdir = TRUE,
                                 !.nopen = @ - 1, !.log = Append(@, AppIdPragma)]
         IN  IF f = "copy"
             THEN Raise(closed, IOError)
             ELSE [closed EXCEPT !.conn.open = TRUE, !.conn.target = "tmp",
                                 !.conn.base = w.file.db, !.nopen = @ + 1]

\* One migration statement on the database of the open transaction:
\* ALTER TABLE needs the table items without the column data, UPDATE needs
\* the table with the columns data and filename
CanExecute(db, st) ==
    IF st = AddColumnData THEN db.schema = SchemaV1 ELSE db.schema = SchemaV2

Execute(db, st) ==
    IF st = AddColumnData
    THEN [db EXCEPT !.schema = SchemaV2,
                    !.items  = [n \in DOMAIN db.items |->
                                   [db.items[n] EXCEPT !.data = JsonNull]]]
    ELSE [db EXCEPT !.items  = [n \in DOMAIN db.items |->
                                   [db.items[n] EXCEPT
                                       !.data = JsonObjectFilename(db.items[n].legacy)]]]

\* ex(migration) for one statement st on the open transaction r: the
\* statement is passed on, and fails on a protected file, on a table it does
\* not fit, or by a disk failure
RunStatement(r, st, protected, diskfails) ==
    [r EXCEPT !.log = Append(@, st),
              !.db  = IF ~protected /\ CanExecute(@, st) /\ ~diskfails
                      THEN Execute(@, st) ELSE @,
              !.exc = IF protected THEN ReadonlyDb
                      ELSE IF ~CanExecute(r.db, st) THEN SqlError
                      ELSE IF diskfails THEN IOError
                      ELSE @]

\* The loops of _migrate from statement k of target t on: r.db is the
\* database as the open transaction sees it, r.log the statements passed to
\* ex().  MIGRATIONS[t] raises KeyError for a target without an entry; the
\* disk failure "migrate" hits the last statement of the last target.
RECURSIVE RunMigrations(_, _, _, _, _)
RunMigrations(r, protected, t, k, f) ==
    IF Failed(r) \/ t > USER_VERSION THEN r
    ELSE IF t \notin DOMAIN MIGRATIONS THEN [r EXCEPT !.exc = KeyErr]
    ELSE IF k > Len(MIGRATIONS[t]) THEN RunMigrations(r, protected, t + 1, 1, f)
    ELSE RunMigrations(
             RunStatement(r, MIGRATIONS[t][k], protected,
                          f = "migrate" /\ t = USER_VERSION /\ k = Len(MIGRATIONS[t])),
             protected, t, k + 1, f)

\* _migrate after its loops: r is what they left; write_meta and commit
\* when no statement raised
MigrateEnd(wt, r) ==
    IF Failed(r) THEN Raise([wt EXCEPT !.log = r.log], r.exc)
    ELSE Commit([wt EXCEPT !.log = r.log \o <<"write_meta", "commit">>], WriteMeta(r.db))

\* _migrate from BEGIN TRANSACTION on; wp is the engine after the probe of
\* the read-only branch
MigrateBegin(wp, f) ==
    IF Failed(wp) THEN wp
    ELSE MigrateEnd([wp EXCEPT !.conn.intxn = TRUE, !.log = Append(@, BeginTransaction)],
                    RunMigrations([db |-> View(wp), log |-> Append(wp.log, BeginTransaction),
                                   exc |-> NoExc],
                                  WriteProtected(wp), View(wp).version + 1, 1, f))

\* (variant: a stored version equal to USER_VERSION is migrated too)
MigrateFromEqual(wv, ro, f) ==
    IF ~View(wv).valid THEN Raise(wv, NotADatabase)
    ELSE IF View(wv).version > USER_VERSION THEN wv
    ELSE MigrateBegin(IF ro THEN MigrateReadonlyProbe(wv, f) ELSE wv, f)

\* _migrate after the query of the stored version (wv)
MigrateFrom(wv, ro, f) ==
    IF ~View(wv).valid THEN Raise(wv, NotADatabase)
    ELSE IF View(wv).version >= USER_VERSION THEN wv
    ELSE MigrateBegin(IF ro THEN MigrateReadonlyProbe(wv, f) ELSE wv, f)

\* SQLiteIO._migrate
Migrate(w, ro, f) == MigrateFrom([w EXCEPT !.log = Append(@, UserVersionQuery)], ro, f)

\* _establish_connection with create_new set: remove the file (writable
\* engine), clear the save ids, connect.  cf names the failure point of
\* the connect ("connect", or "reconnect" after a failed migration).
EstablishNew(w, ro, f, cf) ==
    LET removes == ~ro /\ w.file.exists
        w1 == IF removes THEN [w EXCEPT !.file = NoFile, !.removed = TRUE] ELSE w
        w2 == [w1 EXCEPT !.scene = ClearSaveIds(@)]
    IN  IF removes /\ f = "remove" THEN Raise(w, IOError)
        ELSE IF f = cf THEN Raise(w2, IOError)
        ELSE Connect(w2, ro)

\* _establish_connection returned to the code that asked for the cursor
Opened(w) == IF Failed(w) THEN w ELSE [w EXCEPT !.log = Append(@, "opened")]

\* _establish_connection after _migrate (wm): when it raised, create_new is
\* set and _establish_connection runs again
AfterMigrate(wm, ro, f) ==
    IF ~Failed(wm) THEN wm
    ELSE EstablishNew([wm EXCEPT !.exc = NoExc, !.create_new = TRUE], ro, f, "reconnect")

\* _establish_connection after sqlite3.connect (wc), create_new unset
AfterConnect(wc, ro, f) ==
    IF Failed(wc) THEN wc ELSE AfterMigrate(Migrate(wc, ro, f), ro, f)

\* SQLiteIO._establish_connection
EstablishConnection(w, ro, f) ==
    IF w.create_new THEN Opened(EstablishNew(w, ro, f, "connect"))
    ELSE Opened(AfterConnect(IF f = "connect" THEN Raise(w, IOError) ELSE Connect(w, ro),
                             ro, f))

\* the cursor property: connect on first use
WithCursor(w, ro, f) == IF w.conn.cursor THEN w ELSE EstablishConnection(w, ro, f)

\* ----------------------------------------------------------- write pipeline
\* create_schema_on_new without its call of write_meta
CreateSchemaNoMeta(w, ro, f) ==
    IF ~w.create_new THEN w
    ELSE LET we == WithCursor(w, ro, f)
         IN  IF Failed(we) THEN we ELSE [we EXCEPT !.file.db.schema = SchemaV2]

\* SQLiteIO.create_schema_on_new: with create_new, connect (first use of the
\* cursor), write the meta pragmas and create the tables.  Pragmas and
\* CREATE TABLE are not run inside a transaction: each reaches the file at once.
CreateSchemaOnNew(w, ro, f) ==
    IF ~w.create_new THEN w
    ELSE LET we == WithCursor(w, ro, f)
             wm == [we EXCEPT !.file.db = WriteMeta(@), !.conn.fk = TRUE]
         IN  IF Failed(we) THEN we
             ELSE IF ~View(we).valid THEN Raise(we, NotADatabase)
             ELSE IF WriteProtected(we) THEN Raise(we, ReadonlyDb)
             ELSE IF f = "meta" THEN Raise(we, IOError)
             ELSE IF View(we).schema # SchemaNone THEN Raise(wm, SqlError)
             ELSE IF f = "schema" THEN Raise(wm, IOError)
             ELSE [wm EXCEPT !.file.db.schema = SchemaV2]

\* fetchall('SELECT id from ITEMS') at the head of write_data; the result is
\* left in the field ids of w
SelectIds(w, ro, f) ==
    LET we == WithCursor(w, ro, f)
    IN  IF Failed(we) THEN we
        ELSE IF ~View(we).valid THEN Raise(we, NotADatabase)
        ELSE IF View(we).schema = SchemaNone THEN Raise(we, NoSuchTable)
        ELSE IF f = "select" THEN Raise(we, IOError)
        ELSE we

\* (variant: the ids of the error items are not taken out)
ToDeleteAll(db, sc) == DOMAIN db.items

\* to_delete as write_data first computes it: the stored ids, minus the
\* original save ids of the error items
ToDeleteInit(db, sc) == (DOMAIN db.items) \ ErrorItemIds(sc)

\* (variant: the UPDATE is not committed and its row stays as it was)
UpdateItemLost(w, p, f) ==
    LET db == View(w)
        wt == [w EXCEPT !.conn.intxn = TRUE]
    IN  IF db.schema = SchemaV1 THEN Raise(w, NoSuchColumn)
        ELSE IF WriteProtected(w) THEN Raise(wt, ReadonlyDb)
        ELSE IF f = "update" THEN Raise(wt, IOError)
        ELSE Commit(wt, db)

\* SQLiteIO.update_item for the item at position p: UPDATE the transform
\* fields and the payload document WHERE id = save_id, then commit.  The
\* sqlar table is not touched.  An UPDATE that matches no row is no error.
UpdateItem(w, p, f) ==
    LET it == w.scene[p]
        db == View(w)
        wt == [w EXCEPT !.conn.intxn = TRUE]
        up == [db EXCEPT !.items =
                 [n \in DOMAIN db.items |->
                    IF n = it.save_id
                    THEN [db.items[n] EXCEPT !.geom = it.geom,
                                             !.data = JsonDumps(it.doc)]
                    ELSE db.items[n]]]
    IN  IF db.schema = SchemaV1 THEN Raise(w, NoSuchColumn)
        ELSE IF WriteProtected(w) THEN Raise(wt, ReadonlyDb)
        ELSE IF f = "update" THEN Raise(wt, IOError)
        ELSE Commit(wt, up)

\* (variant: the items row is committed before the sqlar row is inserted)
InsertItemRowFirst(w, p, f, now) ==
    LET it  == w.scene[p]
        db  == View(w)
        id  == MaxOf(DOMAIN db.items) + 1
        wt  == [w EXCEPT !.conn.intxn = TRUE]
        row == [type |-> it.kind, geom |-> it.geom, data |-> JsonDumps(it.doc),
                legacy |-> None]
        bl  == [name  |-> GetFilenameForExport(id),
                bytes |-> PixmapToBytes(it.pm), mtime |-> now]
        d1  == [db EXCEPT !.items = Put(@, id, row)]
        wi  == [Commit(wt, d1) EXCEPT !.scene[p].save_id = id]
    IN  IF db.schema = SchemaV1 THEN Raise(w, NoSuchColumn)
        ELSE IF WriteProtected(w) THEN Raise(wt, ReadonlyDb)
        ELSE IF f = "insert" THEN Raise(wt, IOError)
        ELSE IF it.kind # "pixmap" THEN wi
        ELSE IF id \in DOMAIN db.sqlar THEN Raise(wi, Constraint)
        ELSE IF f = "insert_blob" THEN Raise([wi EXCEPT !.conn.intxn = TRUE], IOError)
        ELSE Commit(wi, [d1 EXCEPT !.sqlar = Put(@, id, bl)])

\* SQLiteIO.insert_item for the item at position p: INSERT the items row,
\* copy lastrowid to item.save_id, for an item with pixmap_to_bytes INSERT
\* the sqlar row, then commit.  A new row gets the largest id in use plus
\* one.  now is the current timestamp (sqlar.mtime).
InsertItem(w, p, f, now) ==
    LET it  == w.scene[p]
        db  == View(w)
        id  == MaxOf(DOMAIN db.items) + 1
        wt  == [w EXCEPT !.conn.intxn = TRUE]
        wi  == [wt EXCEPT !.scene[p].save_id = id]
        row == [type |-> it.kind, geom |-> it.geom, data |-> JsonDumps(it.doc),
                legacy |-> None]
        bl  == [name  |-> GetFilenameForExport(id),
                bytes |-> PixmapToBytes(it.pm), mtime |-> now]
        d1  == [db EXCEPT !.items = Put(@, id, row)]
        d2  == IF it.kind = "pixmap" THEN [d1 EXCEPT !.sqlar = Put(@, id, bl)] ELSE d1
    IN  IF db.schema = SchemaV1 THEN Raise(w, NoSuchColumn)
        ELSE IF WriteProtected(w) THEN Raise(wt, ReadonlyDb)
        ELSE IF f = "insert" THEN Raise(wt, IOError)
        ELSE IF it.kind = "pixmap" /\ id \in DOMAIN db.sqlar THEN Raise(wi, Constraint)
        ELSE IF it.kind = "pixmap" /\ f = "insert_blob" THEN Raise(wi, IOError)
        ELSE Commit(wi, d2)

\* (variant: nothing is deleted)
DeleteNothing(w, del, f) == Commit([w EXCEPT !.conn.intxn = TRUE], View(w))

\* SQLiteIO.delete_items: DELETE FROM items, DELETE FROM sqlar, commit.
\* With foreign keys on, the first statement already removes the blobs.
DeleteItems(w, del, f) ==
    LET db == View(w)
        wt == [w EXCEPT !.conn.intxn = TRUE]
        d1 == [db EXCEPT !.items = Restrict(@, (DOMAIN @) \ del),
                         !.sqlar = IF w.conn.fk THEN Restrict(@, (DOMAIN @) \ del)
                                   ELSE @]
        d2 == [d1 EXCEPT !.sqlar = Restrict(@, (DOMAIN @) \ del)]
    IN  IF WriteProtected(w) /\ del # {} THEN Raise(wt, ReadonlyDb)
        ELSE IF f = "delete" THEN Raise(wt, IOError)
        ELSE Commit(wt, d2)

\* ------------------------------------------------------------ read pipeline
\* The two queries of read(): the items joined with their sqlar row, then
\* the items of type "text" (with no blob column).  Each row is
\* <<id, type, geom, data, bytes>>; rows come in the order of their ids.
RECURSIVE SeqOfSet(_)
SeqOfSet(S) == IF S = {} THEN <<>>
               ELSE LET m == CHOOSE x \in S : \A y \in S : x <= y
                    IN  <<m>> \o SeqOfSet(S \ {m})

NoBytes == <<"none">>

SelectRows(db) ==
    LET joined == SeqOfSet((DOMAIN db.items) \cap (DOMAIN db.sqlar))
        texts  == SeqOfSet({n \in DOMAIN db.items : db.items[n].type = "text"})
        Row(n, bytes) == [id |-> n, type |-> db.items[n].type, geom |-> db.items[n].geom,
                          data |-> db.items[n].data, bytes |-> bytes]
    IN  [k \in 1..Len(joined) |-> Row(joined[k], db.sqlar[joined[k]].bytes)]
        \o [k \in 1..Len(texts) |-> Row(texts[k], NoBytes)]

ReadQueries(w, ro, f) ==
    LET we == WithCursor(w, ro, f)
    IN  IF Failed(we) THEN we
        ELSE IF ~View(we).valid THEN Raise(we, NotADatabase)
        ELSE IF View(we).schema = SchemaNone THEN Raise(we, NoSuchTable)
        ELSE IF View(we).schema = SchemaV1 THEN Raise(we, NoSuchColumn)
        ELSE IF f = "select" THEN Raise(we, IOError)
        ELSE we

\* The descriptor read() builds from a row.  A pixmap row whose bytes give
\* the null pixmap becomes a descriptor of type "error" whose item is the
\* message text.
ImageErrorText == "Image could not be loaded"

Descriptor(row) ==
    LET pm  == PixmapFromBytes(row.bytes)
        bad == row.type = "pixmap" /\ pm = NullPixmap
    IN  [save_id |-> row.id,
         type    |-> IF bad THEN "error" ELSE row.type,
         geom    |-> row.geom,
         data    |-> JsonLoads(row.data),
         text    |-> IF bad THEN ImageErrorText ELSE "",
         item    |-> IF row.type # "pixmap" THEN "none"
                     ELSE IF bad THEN ImageErrorText ELSE pm]

\* BeeGraphicsScene.add_queued_items for one descriptor: the class comes from
\* item_registry (pixmap, text, error), BeeErrorItem for any other tag;
\* update_from_data sets save_id, or original_save_id for an error item
item_registry == {"pixmap", "text", "error"}

\* (variant: the error item of an unknown tag does not take the save id)
ItemFromDescriptorNoId(d) ==
    IF d.type \in item_registry \ {"error"}
    THEN Item(d.type, d.save_id, None, d.geom, d.data, d.item)
    ELSE Item("error", None, IF d.type = "error" THEN d.save_id ELSE None,
              d.geom, d.data, "none")

ItemFromDescriptor(d) ==
    LET typ == IF d.type \in item_registry THEN d.type ELSE "error"
    IN  IF typ = "error"
        THEN Item("error", None, d.save_id, d.geom, d.data, "none")
        ELSE Item(typ, d.save_id, None, d.geom, d.data, d.item)

\* ------------------------------------------------------------------- state
VARIABLES
    file,        \* the container file at the path (committed content)
    scene,       \* the items of the scene, in items() order
    queue,       \* scene.items_to_add
    conn,        \* _connection / _cursor / _tmpdir of the engine
    nopen,       \* connections opened and not closed
    create_new,  \* SQLiteIO.create_new
    readonly,    \* SQLiteIO.readonly
    worker,      \* TRUE: the engine runs with a worker (ThreadedIO)
    retry,       \* SQLiteIO.retry
    canceled,    \* worker.canceled
    signals,     \* the signals the worker emitted in this operation
    raised,      \* the exception the operation raised to its caller
    op,          \* "none", "read", "write"
    pc,          \* position of the operation
    depth,       \* nesting of write() calls (1, or 2 in the retry)
    exc,         \* the exception being handled
    to_delete,   \* write_data's to_delete
    to_save,     \* write_data's to_save (positions in scene)
    rows,        \* read's rows
    idx,         \* loop index of read / write_data (from 1)
    nwrites,     \* write() operations started
    nreads,      \* read() operations started
    faults,      \* failures injected
    file0,       \* the file when the operation started
    scene0,      \* the scene when the operation started
    attempts,    \* runs of the write pipeline in this operation
    cause,       \* description of the failure the pipeline ended with
    done_items,  \* rows / items the loop has processed in this operation
    queued,      \* the descriptors read() has passed to add_item_later
    prev,        \* the scene as written by the write() just before this read()
    removed,     \* the operation removed the file (os.remove)
    log,         \* what the engine's connection handling did since it last closed
    view_filename,  \* view.filename: the name Save writes to
    filenames,   \* load_images: the file names to insert
    errors,      \* load_images: the names that failed to load
    items,       \* load_images: the items made so far
    undo_stack,  \* scene.undo_stack: the commands pushed
    exporter,    \* the ImagesToDirectoryExporter of the view
    dir,         \* the files of the export directory
    filename,    \* export(): the file name computed for the current item
    written      \* the files export() has written, in order

vars == <<file, scene, queue, conn, nopen, create_new, readonly, worker, retry,
          canceled, signals, raised, op, pc, depth, exc, to_delete, to_save, rows,
          idx, nwrites, nreads, faults, file0, scene0, attempts, cause, done_items, queued, prev,
          removed, log, view_filename, filenames, errors, items, undo_stack,
          exporter, dir, filename, written>>

\* the state of load_images and of the images exporter
loadvars == <<filenames, errors, items, undo_stack>>
exportvars == <<exporter, dir, filename, written>>

\* view.filename when the view has no file: None (a name is a string)
NoFilename == "None"

\* --------------------------------------------------- containers at the start
StoredRow(type, ver) ==
    [type |-> type, geom |-> 0,
     data |-> IF ver = 1 THEN JsonNull ELSE JsonDumps(0), legacy |-> 0]

StoredBlob(n, bytes) == [name |-> GetFilenameForExport(n), bytes |-> bytes, mtime |-> 0]

\* what a stored row can be: a text item, a pixmap with good or broken bytes
RowShapes == {"text", "pixmap", "broken"}

\* containers whose first row is of a type this version does not know,
\* stored without a blob ("other") or with one ("alien"), the rows after it
\* pixmaps
ForeignShapes ==
    {[n \in 1..k |-> IF n = 1 THEN t ELSE "pixmap"] :
        k \in 1..MaxStored, t \in {"other", "alien"}}

\* a container of version ver whose row n has the shape sh[n]
Container(ver, sh) ==
    [valid   |-> TRUE, version |-> ver, appid |-> TRUE,
     schema  |-> IF ver = 1 THEN SchemaV1 ELSE SchemaV2,
     items   |-> [n \in DOMAIN sh |->
                    StoredRow(IF sh[n] \in {"text", "other"} THEN sh[n]
                              ELSE IF sh[n] = "alien" THEN "other" ELSE "pixmap",
                              ver)],
     sqlar   |-> [n \in {m \in DOMAIN sh : sh[m] \in {"pixmap", "broken", "alien"}} |->
                    StoredBlob(n, IF sh[n] = "broken" THEN CorruptBytes
                                  ELSE PixmapToBytes("pa"))]]

\* Version 2 containers with any rows; version 1 containers (pixmaps only)
Containers ==
    {Container(USER_VERSION, sh) :
        sh \in ForeignShapes \cup UNION {[S -> RowShapes] : S \in SUBSET (1..MaxStored)}}
    \cup {Container(1, sh) :
        sh \in UNION {[S -> {"pixmap"}] : S \in SUBSET (1..MaxStored)}}

FileOf(db, perm) == [exists |-> TRUE, perm |-> perm, db |-> db]

\* Containers the engine has to migrate
OldContainers == {db \in Containers : db.version < USER_VERSION}

\* The path holds no file, an empty file, a file that is no database, or a
\* container; a container that needs migration may be protected against
\* writing
InitFiles ==
    {NoFile} \cup {FileOf(db, "rw") : db \in Containers \cup {EmptyDb, GarbageDb}}
             \cup {FileOf(db, "ro") : db \in OldContainers}

\* The scene as the user has it: items loaded from a container or written to
\* one (they hold a save id), new items (save id None), error items standing
\* for a row that could not be loaded.  No two saveable items hold the same
\* id.  The item at position i has the transform and the payload i.
ItemShapes ==
    [kind : {"pixmap", "text"}, id : 0..MaxStored]
    \cup [kind : {"error"}, id : 1..MaxStored]

SceneOf(shs) ==
    [i \in DOMAIN shs |->
        IF shs[i].kind = "error"
        THEN Item("error", None, shs[i].id, i, i, "none")
        ELSE Item(shs[i].kind, shs[i].id, None, i, i,
                  IF shs[i].kind = "pixmap" THEN "pa" ELSE "none")]

DistinctIds(sc) ==
    \A i, j \in 1..Len(sc) :
        (i # j /\ Saveable(sc[i]) /\ Saveable(sc[j]) /\ sc[i].save_id # None)
            => sc[i].save_id # sc[j].save_id

InitScenes ==
    {sc \in {SceneOf(shs) : shs \in UNION {[1..n -> ItemShapes] : n \in 0..MaxItems}} :
        DistinctIds(sc)}

\* view.exporter before an export was asked for, and the name export() has
\* computed before it computed one
NoExporter == [items |-> <<>>, max_save_id |-> 0, num_total |-> 0, start_from |-> 0,
               handle_existing |-> "None", dirname |-> "dir"]
NoPath == [id |-> 0, base |-> "", ext |-> ""]

\* nothing runs: no engine, no worker, nothing loaded or exported yet
AtRest ==
    /\ queue = <<>>
    /\ conn = NoConn
    /\ nopen = 0
    /\ create_new = FALSE
    /\ readonly = FALSE
    /\ worker = FALSE
    /\ retry = FALSE
    /\ canceled = FALSE
    /\ signals = <<>>
    /\ raised = NoExc
    /\ op = "none"
    /\ pc = "idle"
    /\ depth = 0
    /\ exc = NoExc
    /\ to_delete = {}
    /\ to_save = <<>>
    /\ rows = <<>>
    /\ idx = 0
    /\ nwrites = 0
    /\ nreads = 0
    /\ faults = 0
    /\ file0 = file
    /\ scene0 = scene
    /\ attempts = 0
    /\ cause = "none"
    /\ done_items = 0
    /\ queued = <<>>
    /\ prev = <<>>
    /\ removed = FALSE
    /\ log = <<>>
    /\ view_filename = NoFilename
    /\ filenames = <<>>
    /\ errors = <<>>
    /\ items = <<>>
    /\ undo_stack = <<>>
    /\ exporter = NoExporter
    /\ filename = NoPath
    /\ written = <<>>

Init ==
    /\ file \in InitFiles
    /\ scene \in InitScenes
    /\ dir = {}
    /\ AtRest

\* ----------------------------------------------------------------- helpers
World == [file |-> file, scene |-> scene, conn |-> conn, create_new |-> create_new,
          nopen |-> nopen, removed |-> removed, log |-> log, exc |-> NoExc]

SetWorld(w) ==
    /\ file' = w.file
    /\ scene' = w.scene
    /\ conn' = w.conn
    /\ create_new' = w.create_new
    /\ nopen' = w.nopen
    /\ removed' = w.removed
    /\ log' = w.log

\* An injected failure f is taken only while the budget lasts and only where
\* it changes what the step does (w is the step with f, w0 the step without)
Inject(f, w, w0) ==
    /\ f # "none" => (faults < MaxFaults /\ w # w0)
    /\ faults' = IF f = "none" THEN faults ELSE faults + 1

Sig(name, arg, errs) == [name |-> name, arg |-> arg, errors |-> errs]
Finished(fname, errs) == Sig("finished", fname, errs)

\* worker.<signal>.emit(...), when the engine has a worker
Emit(sigs) == signals' = IF worker THEN signals \o sigs ELSE signals

\* on_loading_finished, on_saving_finished: the slots of finished.  With an
\* empty error list view.filename becomes the name the signal carries; with
\* errors it is left as it is.
OnFinished ==
    view_filename' =
        IF /\ Len(signals') > Len(signals)
           /\ signals'[Len(signals')].name = "finished"
           /\ signals'[Len(signals')].errors = <<>>
        THEN signals'[Len(signals')].arg
        ELSE view_filename

Idle == pc \in {"idle", "done"}

\* current_timestamp: the clock ticks with every operation
Now == nwrites + nreads

\* An exception leaves the pipeline
Throw(w, to) ==
    /\ exc' = w.exc
    /\ cause' = w.exc.str
    /\ pc' = to

\* ... and with it the locals of write_data / read are gone
DropLocals ==
    /\ to_delete' = {}
    /\ to_save' = <<>>
    /\ rows' = <<>>
    /\ idx' = 0

\* The operation returns to its caller; the engine goes out of scope and
\* __del__ runs _close_connection
Return(w) ==
    /\ SetWorld(CloseConnection(w))
    /\ pc' = "done"
    /\ exc' = NoExc
    /\ depth' = 0

\* ------------------------------------------------------------------ write()
\* save_bee(filename, scene, create_new, worker): a new engine, then write()
StartWrite(cn, ro, wk) ==
    /\ Idle
    /\ nwrites < MaxWrites
    /\ nwrites' = nwrites + 1
    /\ op' = "write"
    /\ create_new' = cn
    /\ readonly' = ro
    /\ worker' = wk
    /\ retry' = FALSE
    /\ conn' = NoConn
    /\ canceled' = FALSE
    /\ signals' = <<>>
    /\ raised' = NoExc
    /\ exc' = NoExc
    /\ pc' = "w_body"
    /\ depth' = 1
    /\ to_delete' = {}
    /\ to_save' = <<>>
    /\ rows' = <<>>
    /\ idx' = 0
    /\ file0' = file
    /\ scene0' = scene
    /\ attempts' = 0
    /\ cause' = "none"
    /\ done_items' = 0
    /\ queued' = <<>>
    /\ prev' = <<>>
    /\ removed' = FALSE
    /\ log' = <<>>
    /\ UNCHANGED <<file, scene, queue, nopen, faults, nreads>>
    /\ UNCHANGED <<view_filename, loadvars, exportvars>>

\* (variant: write() does not look at readonly)
WriteNeverRefused == FALSE

\* "if self.readonly: raise sqlite3.OperationalError(...)" in write
WriteRefused == readonly

\* write(): the readonly check, then create_schema_on_new inside the try
WriteSchema ==
    /\ pc = "w_body"
    /\ IF WriteRefused
       THEN /\ exc' = WriteReadonly
            /\ cause' = WriteReadonly.str
            /\ pc' = "h_except"
            /\ UNCHANGED <<file, scene, conn, create_new, nopen, removed, log, faults,
                           attempts>>
       ELSE \E f \in {"none", "remove", "connect", "meta", "schema"} :
              LET w  == CreateSchemaOnNew(World, readonly, f)
                  w0 == CreateSchemaOnNew(World, readonly, "none")
              IN  /\ Inject(f, w, w0)
                  /\ SetWorld(w)
                  /\ attempts' = attempts + 1
                  /\ IF Failed(w) THEN Throw(w, "w_except")
                     ELSE /\ pc' = "w_data"
                          /\ UNCHANGED <<exc, cause>>
    /\ UNCHANGED <<queue, readonly, worker, retry, canceled, signals, raised, op, depth,
                   to_delete, to_save, rows, idx, nwrites, nreads, file0, scene0, done_items,
                   queued, prev>>
    /\ UNCHANGED <<view_filename, loadvars, exportvars>>

\* write_data up to the loop: the stored ids, keep, to_save, begin_processing
WriteDataBegin ==
    /\ pc = "w_data"
    /\ \E f \in {"none", "connect", "migrate", "remove", "reconnect", "select"} :
         LET w  == SelectIds(World, readonly, f)
             w0 == SelectIds(World, readonly, "none")
             ts == ItemsForSave(w.scene)
         IN  /\ Inject(f, w, w0)
             /\ SetWorld(w)
             /\ IF Failed(w)
                THEN /\ Throw(w, "w_except")
                     /\ UNCHANGED <<to_delete, to_save, idx, signals>>
                ELSE /\ to_delete' = ToDeleteInit(View(w), w.scene)
                     /\ to_save' = ts
                     /\ idx' = 1
                     /\ Emit(<<Sig("begin_processing", Len(ts), <<>>)>>)
                     /\ pc' = IF ts = <<>> THEN "w_delete" ELSE "w_item"
                     /\ UNCHANGED <<exc, cause>>
    /\ UNCHANGED <<queue, readonly, worker, retry, canceled, raised, op, depth, rows,
                   nwrites, nreads, file0, scene0, attempts, done_items,
                   queued, prev>>
    /\ UNCHANGED <<view_filename, loadvars, exportvars>>

\* "if self.worker: ... if self.worker.canceled: break" in write_data
WriteCanceled == worker /\ canceled

\* (variant: the id is taken out of to_delete with discard, which does not
\* raise when the id is not there)
WriteItemStepDiscard(w, p, f) ==
    IF w.scene[p].save_id # None THEN UpdateItem(w, p, f)
    ELSE InsertItem(w, p, f, Now)

\* One round of the loop of write_data: update or insert the item, emit
\* progress, look at the cancellation flag
WriteItemStep(w, p, f) ==
    IF w.scene[p].save_id # None
    THEN LET wu == UpdateItem(w, p, f)
         IN  IF Failed(wu) THEN wu
             ELSE IF w.scene[p].save_id \notin to_delete THEN Raise(wu, KeyErr)
             ELSE wu
    ELSE InsertItem(w, p, f, Now)

WriteItem ==
    /\ pc = "w_item"
    /\ \E f \in {"none", "update", "insert", "insert_blob"} :
         LET p  == to_save[idx]
             w  == WriteItemStep(World, p, f)
             w0 == WriteItemStep(World, p, "none")
         IN  /\ Inject(f, w, w0)
             /\ SetWorld(w)
             /\ IF Failed(w)
                THEN /\ Throw(w, "w_except")
                     /\ DropLocals
                     /\ UNCHANGED <<signals, done_items>>
                ELSE /\ to_delete' = to_delete \ {scene[p].save_id}
                     /\ done_items' = done_items + 1
                     /\ Emit(<<Sig("progress", idx - 1, <<>>)>>)
                     /\ IF WriteCanceled \/ idx = Len(to_save)
                        THEN pc' = "w_delete" /\ idx' = idx
                        ELSE pc' = "w_item" /\ idx' = idx + 1
                     /\ UNCHANGED <<exc, cause, to_save, rows>>
    /\ UNCHANGED <<queue, readonly, worker, retry, canceled, raised, op, depth,
                   nwrites, nreads, file0, scene0, attempts, queued, prev>>
    /\ UNCHANGED <<view_filename, loadvars, exportvars>>

\* delete_items(to_delete)
WriteDelete ==
    /\ pc = "w_delete"
    /\ \E f \in {"none", "delete"} :
         LET w  == DeleteItems(World, to_delete, f)
             w0 == DeleteItems(World, to_delete, "none")
         IN  /\ Inject(f, w, w0)
             /\ SetWorld(w)
             /\ IF Failed(w) THEN Throw(w, "w_except") /\ DropLocals
                ELSE /\ pc' = "w_vacuum"
                     /\ UNCHANGED <<exc, cause, to_delete, to_save, rows, idx>>
    /\ UNCHANGED <<queue, readonly, worker, retry, canceled, signals, raised, op, depth,
                   nwrites, nreads, file0, scene0, attempts, done_items,
                   queued, prev>>
    /\ UNCHANGED <<view_filename, loadvars, exportvars>>

\* VACUUM, commit, finished; write() returns
Vacuum(w, f) ==
    IF WriteProtected(w) THEN Raise(w, ReadonlyDb)
    ELSE IF f = "vacuum" THEN Raise(w, IOError)
    ELSE w

WriteFinish ==
    /\ pc = "w_vacuum"
    /\ \E f \in {"none", "vacuum"} :
         LET w  == Vacuum(World, f)
             w0 == Vacuum(World, "none")
         IN  /\ Inject(f, w, w0)
             /\ IF Failed(w)
                THEN /\ SetWorld(w)
                     /\ Throw(w, "w_except")
                     /\ DropLocals
                     /\ UNCHANGED <<signals, depth>>
                ELSE /\ Emit(<<Finished("path", <<>>)>>)
                     /\ Return(w)
                     /\ UNCHANGED <<cause, to_delete, to_save, rows, idx>>
    /\ UNCHANGED <<queue, readonly, worker, retry, canceled, raised, op,
                   nwrites, nreads, file0, scene0, attempts, done_items,
                   queued, prev>>
    /\ OnFinished
    /\ UNCHANGED <<loadvars, exportvars>>

\* (variant: the retry flag is not looked at)
WriteExceptAgain ==
    /\ pc = "w_except"
    /\ retry' = TRUE
    /\ SetWorld(CloseConnection([World EXCEPT !.create_new = TRUE]))
    /\ depth' = depth + 1
    /\ exc' = NoExc
    /\ pc' = "w_body"
    /\ UNCHANGED <<queue, readonly, worker, canceled, signals, raised, op, to_delete,
                   to_save, rows, idx, nwrites, nreads, faults, file0, scene0, attempts, cause,
                   done_items, queued, prev>>
    /\ UNCHANGED <<view_filename, loadvars, exportvars>>

\* The except clause of write(): raise again when this was the retry,
\* otherwise set retry and create_new, close the connection, call write()
WriteExcept ==
    /\ pc = "w_except"
    /\ IF retry
       THEN /\ pc' = "h_except"
            /\ UNCHANGED <<file, scene, conn, create_new, nopen, removed, log, retry, depth,
                           exc>>
       ELSE /\ retry' = TRUE
            /\ SetWorld(CloseConnection([World EXCEPT !.create_new = TRUE]))
            /\ depth' = depth + 1
            /\ exc' = NoExc
            /\ pc' = "w_body"
    /\ UNCHANGED <<queue, readonly, worker, canceled, signals, raised, op, to_delete,
                   to_save, rows, idx, nwrites, nreads, faults, file0, scene0, attempts, cause,
                   done_items, queued, prev>>
    /\ UNCHANGED <<view_filename, loadvars, exportvars>>

\* ------------------------------------------------------ handle_sqlite_errors
\* The except clause of the wrapper.  The rollback is tried when the engine
\* has a connection in a transaction; asking a closed connection for
\* in_transaction raises sqlite3.ProgrammingError.  "except sqlite3.Error as
\* e" unbinds the name e when it is left, so after a failed rollback str(e)
\* raises UnboundLocalError instead of reporting the failure.
\* log entry: the rollback of the wrapper raised an sqlite3.Error
RollbackFailed == "ROLLBACK failed"

RollbackTried == conn.attr /\ conn.open /\ conn.intxn

RollbackFails(f) == (conn.attr /\ ~conn.open) \/ (RollbackTried /\ f = "rollback")

\* what the wrapper raises (NoExc: it emits finished and returns)
HandlerOutcome(e, wk, rbfail) ==
    IF rbfail THEN UnboundLocal
    ELSE IF wk THEN NoExc
    ELSE BeeFileIOError(e.str)

HandleErrors ==
    /\ pc = "h_except"
    /\ \E f \in {"none", "rollback"} :
         LET out == HandlerOutcome(exc, worker, RollbackFails(f))
         IN  /\ f = "rollback" => (faults < MaxFaults /\ RollbackTried)
             /\ faults' = IF f = "none" THEN faults ELSE faults + 1
             /\ SetWorld([CloseConnection(World) EXCEPT
                             !.log = IF RollbackFails(f) THEN <<RollbackFailed>> ELSE @])
             /\ IF out.cls = "none"
                THEN /\ signals' = Append(signals, Finished("path", <<exc.str>>))
                     /\ pc' = "done"
                     /\ depth' = 0
                     /\ exc' = NoExc
                     /\ raised' = raised
                ELSE IF depth > 1
                THEN /\ exc' = out          \* caught by the wrapper of the outer write()
                     /\ depth' = depth - 1
                     /\ pc' = "h_except"
                     /\ UNCHANGED <<signals, raised>>
                ELSE /\ raised' = out
                     /\ pc' = "done"
                     /\ depth' = 0
                     /\ exc' = NoExc
                     /\ signals' = signals
    /\ UNCHANGED <<queue, readonly, worker, retry, canceled, op, to_delete, to_save, rows,
                   idx, nwrites, nreads, file0, scene0, attempts, cause, done_items,
                   queued, prev>>
    /\ UNCHANGED <<view_filename, loadvars, exportvars>>

\* ------------------------------------------------------------------- read()
\* The operation that has just ended is a write() that met no error, was not
\* cancelled, and whose saveable items all came without a save id
FreshWrite ==
    /\ pc = "done" /\ op = "write"
    /\ raised = NoExc
    /\ \A i \in 1..Len(signals) : signals[i].errors = <<>>
    /\ ~canceled
    /\ LiveIds(scene0) = {}

\* view.open_from_file: clear the scene (clear_scene resets view.filename),
\* then load_bee(filename, scene, worker): a new read-only engine, then
\* read().  entry "dialog" is on_action_open, which sets view.filename to the
\* chosen name as soon as open_from_file has started the worker; entry
\* "file" is open_from_file called with a name (recent file, command line).
StartRead(wk, entry) ==
    /\ Idle
    /\ entry = "dialog" => wk
    /\ nreads < MaxReads
    /\ nreads' = nreads + 1
    /\ op' = "read"
    /\ scene' = <<>>
    /\ create_new' = FALSE
    /\ readonly' = TRUE
    /\ worker' = wk
    /\ retry' = FALSE
    /\ conn' = NoConn
    /\ canceled' = FALSE
    /\ signals' = <<>>
    /\ raised' = NoExc
    /\ exc' = NoExc
    /\ pc' = "r_query"
    /\ depth' = 1
    /\ to_delete' = {}
    /\ to_save' = <<>>
    /\ rows' = <<>>
    /\ idx' = 0
    /\ file0' = file
    /\ scene0' = scene
    /\ attempts' = 0
    /\ cause' = "none"
    /\ done_items' = 0
    /\ queued' = <<>>
    /\ prev' = IF FreshWrite THEN SubSeq(scene, 1, Len(scene0)) ELSE <<>>
    /\ removed' = FALSE
    /\ log' = <<>>
    /\ view_filename' = IF entry = "dialog" THEN "path" ELSE NoFilename
    /\ UNCHANGED <<loadvars, exportvars>>
    /\ UNCHANGED <<file, queue, nopen, faults, nwrites>>

\* read() up to the loop: the two queries and begin_processing
ReadQuery ==
    /\ pc = "r_query"
    /\ \E f \in {"none", "connect", "copy", "migrate", "reconnect", "select"} :
         LET w  == ReadQueries(World, readonly, f)
             w0 == ReadQueries(World, readonly, "none")
             rs == SelectRows(View(w))
         IN  /\ Inject(f, w, w0)
             /\ IF Failed(w)
                THEN /\ SetWorld(w)
                     /\ Throw(w, "h_except")
                     /\ UNCHANGED <<rows, idx, signals, depth>>
                ELSE /\ rows' = rs
                     /\ idx' = 1
                     /\ UNCHANGED cause
                     /\ IF rs = <<>>
                        THEN /\ Emit(<<Sig("begin_processing", 0, <<>>),
                                       Finished("path", <<>>)>>)
                             /\ Return(w)
                        ELSE /\ Emit(<<Sig("begin_processing", Len(rs), <<>>)>>)
                             /\ SetWorld(w)
                             /\ pc' = "r_row"
                             /\ UNCHANGED <<exc, depth>>
    /\ UNCHANGED <<queue, readonly, worker, retry, canceled, raised, op, to_delete,
                   to_save, nwrites, nreads, file0, scene0, attempts, done_items,
                   queued, prev>>
    /\ OnFinished
    /\ UNCHANGED <<loadvars, exportvars>>

\* (variant: the flag is not looked at)
ReadNeverCanceled == FALSE

\* "if self.worker: ... if self.worker.canceled:" in read
ReadCanceled == worker /\ canceled

\* One round of the loop of read(): build the descriptor, queue it, emit
\* progress, look at the cancellation flag; after the last row emit finished
ReadRow ==
    /\ pc = "r_row"
    /\ LET row == rows[idx]
       IN  IF ~JsonLoadable(row.data)
           THEN /\ Throw(Raise(World, JsonTypeError), "h_except")
                /\ DropLocals
                /\ UNCHANGED <<file, scene, conn, create_new, nopen, removed, log, queue,
                               signals, done_items, depth, queued>>
           ELSE /\ queue' = Append(queue, Descriptor(row))
                /\ done_items' = done_items + 1
                /\ queued' = Append(queued, Descriptor(row))
                /\ UNCHANGED cause
                /\ IF ReadCanceled
                   THEN /\ Emit(<<Sig("progress", idx - 1, <<>>), Finished("", <<>>)>>)
                        /\ Return(World)
                        /\ UNCHANGED <<to_delete, to_save, rows, idx>>
                   ELSE IF idx = Len(rows)
                   THEN /\ Emit(<<Sig("progress", idx - 1, <<>>), Finished("path", <<>>)>>)
                        /\ Return(World)
                        /\ UNCHANGED <<to_delete, to_save, rows, idx>>
                   ELSE /\ Emit(<<Sig("progress", idx - 1, <<>>)>>)
                        /\ idx' = idx + 1
                        /\ UNCHANGED <<file, scene, conn, create_new, nopen, removed, log, pc,
                                       exc, depth, to_delete, to_save, rows>>
    /\ UNCHANGED <<readonly, worker, retry, canceled, raised, op,
                   nwrites, nreads, faults, file0, scene0, attempts, prev>>
    /\ OnFinished
    /\ UNCHANGED <<loadvars, exportvars>>

\* ------------------------------------------------------------ the main thread
\* ThreadedIO.on_canceled.  The flag is read in the loops only: set before the
\* loop it is seen by the first round, set after the last round it is never
\* read, so it is set here when a round is about to run.
Cancel ==
    /\ pc \in {"w_item", "r_row", "l_file", "e_item", "e_ask"}
    /\ worker
    /\ ~canceled
    /\ canceled' = TRUE
    /\ UNCHANGED <<file, scene, queue, conn, nopen, create_new, readonly, worker, retry,
                   signals, raised, op, pc, depth, exc, to_delete, to_save, rows, idx,
                   nwrites, nreads, faults, file0, scene0, attempts, cause, done_items, removed, log,
                   queued, prev>>
    /\ UNCHANGED <<view_filename, loadvars, exportvars>>

RECURSIVE ItemsFromQueue(_)
ItemsFromQueue(q) == IF q = <<>> THEN <<>>
                     ELSE <<ItemFromDescriptor(Head(q))>> \o ItemsFromQueue(Tail(q))

\* BeeGraphicsScene.add_queued_items (the slot of progress, and of finished
\* when the load had no errors).  read() does not look at the scene once its
\* loop runs, so the slot is taken when the operation has ended.
AddQueuedItems ==
    /\ queue # <<>>
    /\ Idle
    /\ scene' = scene \o ItemsFromQueue(queue)
    /\ queue' = <<>>
    /\ UNCHANGED <<file, conn, nopen, create_new, readonly, worker, retry, canceled,
                   signals, raised, op, pc, depth, exc, to_delete, to_save, rows, idx,
                   nwrites, nreads, faults, file0, scene0, attempts, cause, done_items, removed, log,
                   queued, prev>>
    /\ UNCHANGED <<view_filename, loadvars, exportvars>>

Next ==
    \/ \E cn \in BOOLEAN, ro \in BOOLEAN, wk \in BOOLEAN : StartWrite(cn, ro, wk)
    \/ WriteSchema
    \/ WriteDataBegin
    \/ WriteItem
    \/ WriteDelete
    \/ WriteFinish
    \/ WriteExcept
    \/ HandleErrors
    \/ \E wk \in BOOLEAN, entry \in {"file", "dialog"} : StartRead(wk, entry)
    \/ ReadQuery
    \/ ReadRow
    \/ Cancel
    \/ AddQueuedItems

Spec == Init /\ [][Next]_vars

\* ============================================================ load_images
\* (fileio/__init__.py) inserts image files into the scene from a worker
\* thread.
MaxFiles == 3

\* The names the user picked; the files named *.png hold an image, the
\* others do not.  A name may be picked twice.
FileNames == {"a.png", "b.png", "x.txt", "y.txt"}
FileNameLists == UNION {[1..n -> FileNames] : n \in 0..MaxFiles}

\* load_image: (img, filename); img.isNull() when the file holds no image
LoadImage(name) == [isNull |-> name \notin {"a.png", "b.png"}, filename |-> name]

\* BeePixmapItem(img, filename), and the entry add_item_later puts into
\* scene.items_to_add
BeePixmapItem(img) == [kind |-> "pixmap", filename |-> img.filename]
ItemLater(item, selected) == [item |-> item, type |-> "pixmap", selected |-> selected]

\* commands.InsertItems(scene, items, ignore_first_redo=True)
InsertItems(its) == [command |-> "InsertItems", items |-> its, ignore_first_redo |-> TRUE]

\* what load_images leaves alone
LoadFrame ==
    UNCHANGED <<file, scene, conn, nopen, create_new, readonly, retry, raised, depth,
                exc, to_delete, to_save, rows, nwrites, nreads, faults, file0, scene0,
                attempts, cause, queued, prev, removed, log, view_filename, exportvars>>

\* ThreadedIO(load_images, filenames, pos, scene).start(): the lists are
\* empty and begin_processing tells the number of names
LoadImagesBegin(fs) ==
    /\ pc = "idle"
    /\ op' = "load_images"
    /\ worker' = TRUE
    /\ canceled' = FALSE
    /\ filenames' = fs
    /\ errors' = <<>>
    /\ items' = <<>>
    /\ idx' = 1
    /\ done_items' = 0
    /\ signals' = <<Sig("begin_processing", Len(fs), <<>>)>>
    /\ pc' = "l_file"
    /\ UNCHANGED <<queue, undo_stack>>
    /\ LoadFrame

\* (variant: a name that does not load is not kept in errors)
LoadImagesFileForget ==
    /\ op = "load_images" /\ pc = "l_file"
    /\ idx <= Len(filenames)
    /\ LET img == LoadImage(filenames[idx])
           item == BeePixmapItem(img)
       IN /\ signals' = signals \o <<Sig("progress", idx - 1, <<>>)>>
          /\ done_items' = done_items + 1
          /\ IF img.isNull
             THEN /\ idx' = idx + 1
                  /\ UNCHANGED <<errors, queue, items, pc>>
             ELSE /\ queue' = Append(queue, ItemLater(item, TRUE))
                  /\ items' = Append(items, item)
                  /\ IF canceled
                     THEN pc' = "l_end" /\ idx' = idx
                     ELSE pc' = pc /\ idx' = idx + 1
                  /\ UNCHANGED errors
    /\ UNCHANGED <<op, worker, canceled, filenames, undo_stack>>
    /\ LoadFrame

\* One round of the loop: the file at idx is loaded; a null image goes to
\* errors and the loop continues, an image becomes a selected item that is
\* queued for the scene, and only then is the canceled flag looked at.
LoadImagesFile ==
    /\ op = "load_images" /\ pc = "l_file"
    /\ idx <= Len(filenames)
    /\ LET img == LoadImage(filenames[idx])
           item == BeePixmapItem(img)
       IN /\ signals' = signals \o <<Sig("progress", idx - 1, <<>>)>>
          /\ done_items' = done_items + 1
          /\ IF img.isNull
             THEN /\ errors' = Append(errors, img.filename)
                  /\ idx' = idx + 1
                  /\ UNCHANGED <<queue, items, pc>>
             ELSE /\ queue' = Append(queue, ItemLater(item, TRUE))
                  /\ items' = Append(items, item)
                  /\ IF canceled
                     THEN pc' = "l_end" /\ idx' = idx
                     ELSE pc' = pc /\ idx' = idx + 1
                  /\ UNCHANGED errors
    /\ UNCHANGED <<op, worker, canceled, filenames, undo_stack>>
    /\ LoadFrame

\* After the loop (exhausted or left by break): the one InsertItems command
\* and finished('', errors)
LoadImagesEnd ==
    /\ op = "load_images"
    /\ \/ pc = "l_end"
       \/ pc = "l_file" /\ idx > Len(filenames)
    /\ undo_stack' = Append(undo_stack, InsertItems(items))
    /\ signals' = signals \o <<Finished("", errors)>>
    /\ pc' = "done"
    /\ UNCHANGED <<op, worker, canceled, filenames, errors, items, queue, idx, done_items>>
    /\ LoadFrame

\* ThreadedIO.on_canceled while load_images runs
CancelLoad ==
    /\ op = "load_images" /\ pc = "l_file"
    /\ Cancel

NextImages ==
    \/ \E fs \in FileNameLists : LoadImagesBegin(fs)
    \/ LoadImagesFile
    \/ LoadImagesEnd
    \/ CancelLoad

InitImages ==
    /\ file = NoFile
    /\ scene = <<>>
    /\ dir = {}
    /\ AtRest

SpecImages == InitImages /\ [][NextImages]_vars

\* ============================================== ImagesToDirectoryExporter
\* (fileio/export.py) writes every pixmap item of the scene to a file of a
\* directory, from a worker thread; when a file is there already the run
\* stops, the view asks the user and starts the worker again.
MaxName == 4

\* the file name a pixmap item may carry (None for a pasted image)
ItemFilenames == {NoFilename, "shot.png"}

\* os.path.splitext(os.path.basename(filename))[0]
Basename(fn) == IF fn = "shot.png" THEN "shot" ELSE fn

\* Path(dirname) / filename exists: the names are '{save_id:04}-{basename}.{ext}'
\* and '{save_id:04}.{ext}' (here: base "")
ExportNames == [id : 1..MaxName, base : {"", "shot"}, ext : {"png"}]
InitDirs == SUBSET ExportNames

\* BeeGraphicsScene.items_by_type: positions of the items of that type
ItemsByType(sc, itype) ==
    SelectSeq([p \in 1..Len(sc) |-> p], LAMBDA p : sc[p].kind = itype)

\* what the exporter needs of a pixmap item
ExportItemOf(it, fn) == [save_id |-> it.save_id, filename |-> fn, pm |-> it.pm]

\* BeePixmapItem.get_filename_for_export, with the base name and the format
FilenameForExport(item, imgformat, save_id_default) ==
    LET save_id == IF item.save_id # None THEN item.save_id ELSE save_id_default
    IN [id |-> save_id,
        base |-> IF item.filename # NoFilename THEN Basename(item.filename) ELSE "",
        ext |-> imgformat]

\* BeePixmapItem.pixmap_to_bytes: (bytes, format); the images here are
\* stored as png
PixmapAndFormat(item) == [bytes |-> PixmapToBytes(item.pm), imgformat |-> "png"]

\* the answers of the dialog that export() knows
Answers == {"skip", "skip_all", "overwrite", "overwrite_all"}

\* str(error) of the OSError of a file operation
OSErrorStr == "[Errno 13] Permission denied"

RECURSIVE MaxSaveId(_)
MaxSaveId(its) ==
    IF its = <<>> THEN 0
    ELSE LET m == MaxSaveId(Tail(its))
         IN IF Head(its).save_id # None /\ Head(its).save_id > m
            THEN Head(its).save_id ELSE m

\* ImagesToDirectoryExporter.__init__
NewExporter(its) ==
    [items |-> its, max_save_id |-> MaxSaveId(its), num_total |-> Len(its),
     start_from |-> 0, handle_existing |-> "None", dirname |-> "dir"]

\* the beginning of export(): begin_processing and the first progress
ExportRunBegins(ex) ==
    <<Sig("begin_processing", ex.num_total, <<>>), Sig("progress", ex.start_from, <<>>)>>

\* what the exporter leaves alone
ExportFrame ==
    UNCHANGED <<file, scene, queue, conn, nopen, create_new, readonly, retry, raised,
                depth, exc, to_delete, to_save, rows, nwrites, nreads, file0, scene0,
                attempts, cause, done_items, queued, prev, removed, log, view_filename,
                loadvars>>

\* on_action_export_images: a new exporter for the chosen directory, and a
\* new worker that runs its export()
ExportStart(fns) ==
    /\ pc = "idle"
    /\ LET pos == ItemsByType(scene, "pixmap")
           ex == NewExporter([k \in 1..Len(pos) |-> ExportItemOf(scene[pos[k]], fns[k])])
       IN /\ exporter' = ex
          /\ signals' = ExportRunBegins(ex)
          /\ idx' = ex.start_from + 1
    /\ op' = "export"
    /\ worker' = TRUE
    /\ canceled' = FALSE
    /\ pc' = "e_item"
    /\ UNCHANGED <<dir, filename, written, faults>>
    /\ ExportFrame

\* the round ends with the item written (or passed over): the next item
ExportNextItem(ex, sigs) ==
    /\ exporter' = ex
    /\ signals' = sigs
    /\ idx' = idx + 1
    /\ pc' = pc

\* the run ends with finished(name, errs)
ExportRunEnds(ex, sigs, name, errs) ==
    /\ exporter' = ex
    /\ signals' = sigs \o <<Finished(name, errs)>>
    /\ idx' = idx
    /\ pc' = "done"

\* the run stops at item i to ask about path
ExportAsks(ex, sigs, i, path) ==
    /\ exporter' = [ex EXCEPT !.start_from = i]
    /\ signals' = sigs \o <<Sig("user_input_required", path, <<>>)>>
    /\ idx' = idx
    /\ pc' = "e_ask"

\* path.write_bytes(pixmap) for item i, and what follows it
ExportWrite(ex, sigs, i, path, f) ==
    IF f = "write"
    THEN /\ ExportRunEnds(ex, sigs, path, <<OSErrorStr>>)
         /\ UNCHANGED <<dir, written>>
    ELSE /\ dir' = dir \cup {path}
         /\ written' = Append(written, [item |-> i, path |-> path, existed |-> path \in dir,
                                        answer |-> exporter.handle_existing])
         /\ ExportNextItem(ex, sigs \o <<Sig("progress", i, <<>>)>>)

\* (variant: a one-shot 'skip' is taken for 'overwrite')
ExportExistingOverwrites(ex, sigs, i, path, f) ==
    IF ex.handle_existing = "None"
    THEN ExportAsks(ex, sigs, i, path) /\ UNCHANGED <<dir, written>>
    ELSE IF ex.handle_existing = "skip_all"
    THEN ExportNextItem(ex, sigs) /\ UNCHANGED <<dir, written>>
    ELSE IF ex.handle_existing \in {"skip", "overwrite"}
    THEN ExportWrite([ex EXCEPT !.handle_existing = "None"], sigs, i, path, f)
    ELSE ExportWrite(ex, sigs, i, path, f)

\* the target file exists: ask, or do what the user answered
ExportExisting(ex, sigs, i, path, f) ==
    IF ex.handle_existing = "None"
    THEN ExportAsks(ex, sigs, i, path) /\ UNCHANGED <<dir, written>>
    ELSE IF ex.handle_existing = "skip"
    THEN ExportNextItem([ex EXCEPT !.handle_existing = "None"], sigs)
         /\ UNCHANGED <<dir, written>>
    ELSE IF ex.handle_existing = "skip_all"
    THEN ExportNextItem(ex, sigs) /\ UNCHANGED <<dir, written>>
    ELSE IF ex.handle_existing = "overwrite"
    THEN ExportWrite([ex EXCEPT !.handle_existing = "None"], sigs, i, path, f)
    ELSE ExportWrite(ex, sigs, i, path, f)

\* One round of the loop of export(), for the item at index i = idx - 1;
\* f is the file operation that fails in this round ("none": none does).
ExportItemStep(f) ==
    /\ op = "export" /\ pc = "e_item"
    /\ idx <= Len(exporter.items)
    /\ f # "none" => faults < MaxFaults
    /\ faults' = IF f = "none" \/ canceled THEN faults ELSE faults + 1
    /\ LET i == idx - 1
           item == exporter.items[idx]
           sigs == signals \o <<Sig("progress", i, <<>>)>>
       IN IF canceled
          THEN /\ ExportRunEnds(exporter, sigs, exporter.dirname, <<>>)
               /\ UNCHANGED <<dir, filename, written>>
          ELSE LET imgformat == PixmapAndFormat(item).imgformat
                   ex == IF item.save_id # None
                         THEN exporter
                         ELSE [exporter EXCEPT !.max_save_id = @ + 1]
                   path == FilenameForExport(item, imgformat, ex.max_save_id)
               IN /\ filename' = path
                  /\ IF f = "exists"
                     THEN /\ ExportRunEnds(ex, sigs, exporter.dirname, <<OSErrorStr>>)
                          /\ UNCHANGED <<dir, written>>
                     ELSE IF path \in dir
                     THEN ExportExisting(ex, sigs, i, path, f)
                     ELSE ExportWrite(ex, sigs, i, path, f)
    /\ UNCHANGED <<op, worker, canceled>>
    /\ ExportFrame

ExportItem == \E f \in {"none", "exists", "write"} : ExportItemStep(f)

\* the loop is through: finished(dirname, [])
ExportEnd ==
    /\ op = "export" /\ pc = "e_item"
    /\ idx > Len(exporter.items)
    /\ ExportRunEnds(exporter, signals, exporter.dirname, <<>>)
    /\ UNCHANGED <<op, worker, canceled, dir, filename, written, faults>>
    /\ ExportFrame

\* on_export_images_file_exists, the dialog accepted with answer a: the
\* answer is kept in the exporter and the same worker is started again
ExportAnswer(a) ==
    /\ op = "export" /\ pc = "e_ask"
    /\ exporter' = [exporter EXCEPT !.handle_existing = a]
    /\ signals' = signals \o ExportRunBegins(exporter)
    /\ idx' = exporter.start_from + 1
    /\ pc' = "e_item"
    /\ UNCHANGED <<op, worker, canceled, dir, filename, written, faults>>
    /\ ExportFrame

\* ThreadedIO.on_canceled while the export runs or waits for the answer
CancelExport ==
    /\ op = "export"
    /\ Cancel

NextExport ==
    \/ \E fns \in [1..MaxItems -> ItemFilenames] : ExportStart(fns)
    \/ ExportItem
    \/ ExportEnd
    \/ \E a \in Answers : ExportAnswer(a)
    \/ CancelExport

InitExport ==
    /\ file = NoFile
    /\ scene \in InitScenes
    /\ dir \in InitDirs
    /\ AtRest

SpecExport == InitExport /\ [][NextExport]_vars

\* ================================================================ properties
\* the operation o has ended
Ended(o) == pc = "done" /\ op = o

\* a write() that ran its pipeline once, met no failure and was not
\* cancelled, on the container it found (create_new not set)
FirstAttemptWrite ==
    Ended("write") /\ attempts = 1 /\ cause = "none" /\ ~canceled /\ ~create_new

\* ids the store gave in this write to the saveable items that had none
FreshIds ==
    {scene[p].save_id :
        p \in {q \in 1..Len(scene0) : Saveable(scene0[q]) /\ scene0[q].save_id = None}}

StoredIds(f) == DOMAIN f.db.items
BlobIds(f)   == DOMAIN f.db.sqlar

\* C1: after an uncancelled write() onto the existing container that succeeds
\* on its first attempt, the stored ids are the ids the live saveable items
\* held, the fresh ids given to the items that had none, and the stored ids
\* protected by error items; every other row that was stored is gone, and its
\* blob with it.
C1_StoredIdsAfterWrite ==
    FirstAttemptWrite =>
        LET keep == LiveIds(scene0) \cup FreshIds
                        \cup (StoredIds(file0) \cap ErrorItemIds(scene0))
        IN  /\ StoredIds(file) = keep
            /\ \A n \in StoredIds(file0) \ keep :
                   n \notin StoredIds(file) /\ n \notin BlobIds(file)

\* C1's case: stored {1, 2}, the scene holds 1 and a new item: 2 is deleted
\* with its blob, the new item gets 3
C1_Witness ==
    /\ FirstAttemptWrite
    /\ StoredIds(file0) = {1, 2} /\ 2 \in BlobIds(file0)
    /\ LiveIds(scene0) = {1}
    /\ FreshIds = {3}
    /\ StoredIds(file) = {1, 3}
    /\ 2 \notin BlobIds(file)

\* C2: write() deletes a stored row only if no live saveable item holds its
\* id at write time and no error item protects it, on every path through
\* write_data (the file is not removed), cancellation included.
C2_DeletesOnlyUnheld ==
    (op = "write" /\ ~removed) =>
        \A n \in StoredIds(file0) \ StoredIds(file) :
            n \notin LiveIds(scene0) /\ n \notin ErrorItemIds(scene0)

\* a container read in the current schema: what a version 1 container
\* holds once the engine has migrated it
Migrated(f) == IF f.db.schema = SchemaV1 THEN [f EXCEPT !.db = MigrateToV2(@)] ELSE f

\* row n and its blob are in f as they are in g
SameRecord(n, f, g) ==
    /\ n \in StoredIds(f) /\ n \in StoredIds(g)
    /\ f.db.items[n] = g.db.items[n]
    /\ (n \in BlobIds(f)) = (n \in BlobIds(g))
    /\ n \in BlobIds(g) => f.db.sqlar[n] = g.db.sqlar[n]

\* a write() that stayed on the container it found: no create_new, no retry
InPlaceWrite == Ended("write") /\ ~create_new /\ ~removed /\ attempts <= 1

\* C3: while an error item with original save id N is in the scene, a
\* write() to the existing container that is not a full rewrite leaves row N
\* and its blob stored and unchanged (a version 1 row is compared in its
\* migrated form).
C3_ProtectedRowsUntouched ==
    InPlaceWrite =>
        \A n \in ErrorItemIds(scene0) \cap StoredIds(file0) :
            SameRecord(n, Migrated(file), Migrated(file0))

\* C3's case: a protected row stays while the write deletes another row
C3_Witness ==
    /\ InPlaceWrite
    /\ attempts = 1
    /\ ErrorItemIds(scene0) \cap StoredIds(file0) \cap BlobIds(file0) # {}
    /\ StoredIds(file0) \ StoredIds(file) # {}

\* C4: one write() on a writable engine runs the pipeline at most twice; a
\* failure of the first run closes the connection, sets retry and create_new
\* and runs the pipeline once more; a failure of that run goes to the caller
\* with no further run.
C4_AtMostOneRetry ==
    /\ [](op = "write" =>
            /\ attempts <= 2
            /\ attempts = 2 => (retry /\ create_new)
            /\ (Ended("write") /\ ~readonly /\ cause # "none") => attempts = 2)
    /\ [][pc = "w_except" =>
            IF retry
            THEN pc' = "h_except" /\ attempts' = attempts
            ELSE pc' = "w_body" /\ retry' /\ create_new' /\ conn' = NoConn
                 /\ attempts' = attempts]_vars

\* C4's case: the first run failed, the second run failed too and the
\* failure reached the caller
C4_Witness ==
    /\ Ended("write")
    /\ attempts = 2
    /\ raised.cls = "BeeFileIOError"

\* positions of the finished signals among the signals of the operation
FinishedAt == {i \in 1..Len(signals) : signals[i].name = "finished"}

\* C5: with a worker, every read() and every write() emits finished exactly
\* once and no signal after it: while the operation runs finished has not
\* been emitted twice nor been followed by a signal, and when the operation
\* has ended it has been emitted.
C5_FinishedExactlyOnce ==
    (worker /\ op \in {"read", "write"}) =>
        /\ Cardinality(FinishedAt) <= 1
        /\ FinishedAt \subseteq {Len(signals)}
        /\ pc = "done" => Cardinality(FinishedAt) = 1

\* the operation has ended in failure: it raised, or reported errors
EndedInFailure ==
    /\ pc = "done" /\ op \in {"read", "write"}
    /\ \/ raised # NoExc
       \/ \E i \in FinishedAt : signals[i].errors # <<>>

\* C6: when read() or write() ends in failure, then with a worker nothing is
\* raised and the last signal is finished(filename, [description of the
\* failure]); without a worker BeeFileIOError is raised with msg the
\* description of the failure and filename the engine's path.  The failure
\* described is the one the pipeline ended with (that of the retried run when
\* write() retried).
C6_FailureOutcome ==
    EndedInFailure =>
        IF worker
        THEN /\ raised = NoExc
             /\ signals # <<>>
             /\ signals[Len(signals)] = Finished("path", <<cause>>)
        ELSE /\ raised.cls = "BeeFileIOError"
             /\ raised.msg = cause
             /\ raised.filename = "path"

\* a read() during which the cancellation flag was seen set
CanceledRead == Ended("read") /\ canceled /\ cause = "none"

\* C7: when the flag is seen set after read() has processed k of its n rows
\* (1 <= k <= n), read() emits finished('', []) as its last signal, exactly
\* the descriptors of the first k rows have been queued, and no further row
\* is processed: the operation has ended.
C7_CancelledRead ==
    CanceledRead =>
        /\ idx \in 1..Len(rows)
        /\ signals[Len(signals)] = Finished("", <<>>)
        /\ Cardinality(FinishedAt) = 1
        /\ queued = [k \in 1..idx |-> Descriptor(rows[k])]
        /\ done_items = idx

\* C7's case: the flag is seen after the first of two rows
C7_Witness ==
    /\ CanceledRead
    /\ Len(rows) = 2
    /\ idx = 1
    /\ Len(queued) = 1

\* an uncancelled read() that met no error, right after a write() that met
\* no error and whose saveable items all came without a save id
RoundTrip == Ended("read") /\ ~canceled /\ cause = "none" /\ prev # <<>>

\* the saveable items the write() wrote, as positions of prev
Written == {p \in 1..Len(prev) : Saveable(prev[p])}

\* the descriptor d gives back the item it
SameItem(d, it) ==
    /\ d.save_id = it.save_id
    /\ d.type = it.kind
    /\ d.geom = it.geom
    /\ d.data = it.doc
    /\ it.kind = "pixmap" => d.item = it.pm

SuccessfulInPlaceWrite ==
    /\ Ended("write") /\ ~removed /\ ~create_new
    /\ raised = NoExc
    /\ \A i \in FinishedAt : signals[i].errors = <<>>

\* positions of the items that came to the write() with a save id that had
\* a stored row
Persisted == {p \in 1..Len(scene0) :
                 Saveable(scene0[p]) /\ scene0[p].save_id \in StoredIds(file0)}

\* C9: for an item that has a save id with a stored row, a successful
\* write() to the same container leaves the item's id unchanged, leaves its
\* blob untouched, and changes nothing of its row but the transform and the
\* payload document.
C9_UpdateKeepsIdentityAndBlob ==
    SuccessfulInPlaceWrite =>
        \A p \in Persisted :
            LET n == scene0[p].save_id
            IN  /\ scene[p].save_id = n
                /\ n \in StoredIds(file)
                /\ file.db.items[n].type = file0.db.items[n].type
                /\ (n \in BlobIds(file)) = (n \in BlobIds(file0))
                /\ n \in BlobIds(file0) => file.db.sqlar[n] = file0.db.sqlar[n]

\* C10: in every committed state of the container every blob belongs to a
\* stored row, and every stored pixmap row has its blob: a row and its blob
\* are committed together.  (sqlar is keyed by item_id, which the schema
\* declares UNIQUE: the second blob of a row is refused in insert_item.)
C10_BlobsAndRows ==
    /\ BlobIds(file) \subseteq StoredIds(file)
    /\ \A n \in StoredIds(file) : file.db.items[n].type = "pixmap" => n \in BlobIds(file)

\* C10's case: the row of a new pixmap item was inserted and the item got its
\* id, the insert of the blob failed; the row is not in the committed state
C10_Witness ==
    /\ op = "write" /\ pc = "w_except"
    /\ conn.intxn
    /\ \E p \in 1..Len(scene) :
          /\ scene[p].kind = "pixmap"
          /\ scene[p].save_id # None
          /\ scene0[p].save_id = None
          /\ scene[p].save_id \notin StoredIds(file)

\* ---------------------------------------------------------------- claim C11
\* The statements registered for the targets t .. USER_VERSION, in order
RECURSIVE RegisteredFrom(_)
RegisteredFrom(t) ==
    IF t > USER_VERSION THEN <<>>
    ELSE (IF t \in DOMAIN MIGRATIONS THEN MIGRATIONS[t] ELSE <<>>) \o RegisteredFrom(t + 1)

\* What a complete migration from the stored version s runs
CompleteMigration(s) ==
    <<BeginTransaction>> \o RegisteredFrom(s + 1) \o <<"write_meta", "commit">>

\* The part of the log that _migrate wrote after BEGIN TRANSACTION
MigrationBegun == \E i \in 1..Len(log) : log[i] = BeginTransaction
MigrationLog ==
    LET b == CHOOSE i \in 1..Len(log) : log[i] = BeginTransaction
        e == IF \E j \in b..Len(log) : log[j] \in {"connect", "opened"}
             THEN (CHOOSE j \in b..Len(log) :
                      /\ log[j] \in {"connect", "opened"}
                      /\ \A k \in b..(j - 1) : log[k] \notin {"connect", "opened"}) - 1
             ELSE Len(log)
    IN  SubSeq(log, b, e)

IsPrefix(a, b) == Len(a) <= Len(b) /\ a = SubSeq(b, 1, Len(a))

\* C11: a migration from any stored version s in 0 .. USER_VERSION-1 runs the
\* statements registered for the targets s+1 .. USER_VERSION in that order
\* inside one transaction (what it ran is a beginning of that list, and it
\* reaches the first registered statement: no target is skipped or refused),
\* and the identity tag and the version are written only by the complete
\* migration, after the last statement.
C11_MigratesInOrder ==
    MigrationBegun =>
        LET s == file0.db.version
        IN  /\ IsPrefix(MigrationLog, CompleteMigration(s))
            /\ Len(MigrationLog) >= 2
            /\ (MigrationLog # CompleteMigration(s) /\ file.exists /\ ~removed) =>
                       /\ file.db.version = s
                       /\ file.db.appid = file0.db.appid

\* ---------------------------------------------------------------- claim C12
\* _establish_connection has just returned from the open of an existing
\* container, an SQLite database (create_new was unset: _migrate asked for
\* the stored version)
OpenedExisting ==
    /\ \E i \in 1..Len(log) : log[i] = UserVersionQuery
    /\ log[Len(log)] = "opened"
    /\ conn.attr /\ conn.open
    /\ file0.db.valid

\* C12: after every open of an existing container that does not fail, the
\* stored schema version is USER_VERSION, whatever it was before; an open
\* that cannot bring the container to USER_VERSION does not return.
C12_OpenedAtCurrentVersion ==
    OpenedExisting => View(World).version = USER_VERSION

\* ---------------------------------------------------------------- claim C13
\* The engine holds an open connection
Connected == conn.attr /\ conn.open /\ conn.cursor

\* _migrate has just committed and _establish_connection returned
JustMigrated ==
    /\ Connected
    /\ Len(log) >= 2
    /\ log[Len(log)] = "opened"
    /\ log[Len(log) - 1] = "commit"

\* _migrate run now does nothing but ask for the stored version: no
\* statement, no pragma written, no transaction, nothing stored changes
MigrateIsNoOp ==
    \A ro \in BOOLEAN, f \in {"none", "migrate", "copy"} :
        Migrate(World, ro, f) = [World EXCEPT !.log = Append(@, UserVersionQuery)]

\* C13: migration is idempotent: _migrate run again directly after a
\* _migrate that succeeded writes nothing, and _migrate on a container whose
\* stored version is already current writes nothing.
C13_MigrateIdempotent ==
    /\ JustMigrated => MigrateIsNoOp
    /\ (Connected /\ View(World).valid /\ View(World).version >= USER_VERSION)
           => MigrateIsNoOp

\* a write() has migrated a version 1 container and goes on with its rows
C13_Witness ==
    /\ JustMigrated
    /\ file0.db.version < USER_VERSION
    /\ file.db.version = USER_VERSION
    /\ file.db.items # EmptyFn
    /\ MigrateIsNoOp

\* ---------------------------------------------------------------- claim C14
\* create_schema_on_new has just created the container of a write() that
\* was started with create_new: the pipeline is at the head of write_data
JustCreated ==
    /\ op = "write" /\ pc = "w_data"
    /\ create_new
    /\ Connected

Undecodable(row) == row.type = "pixmap" /\ row.bytes = CorruptBytes

\* The descriptor and the item that stand for such a row
IsPlaceholderOf(d, row) ==
    /\ d.type = "error"
    /\ d.save_id = row.id
    /\ d.text = ImageErrorText
    /\ d.item = ImageErrorText
    /\ ItemFromDescriptor(d).kind = "error"
    /\ ItemFromDescriptor(d).orig = row.id
    /\ ItemFromDescriptor(d).save_id = None

UncancelledRead == Ended("read") /\ ~canceled /\ cause = "none"

\* C15: read() queues for a pixmap row with an undecodable blob an error
\* placeholder that carries the row's identity as original save identity,
\* goes on with the remaining rows, and ends with finished(filename, []).
C15_UndecodableBlob ==
    /\ [](UncancelledRead =>
             /\ Len(queued) = Len(rows)
             /\ \A k \in 1..Len(rows) :
                    Undecodable(rows[k]) => IsPlaceholderOf(queued[k], rows[k])
             /\ raised = NoExc
             /\ worker => signals[Len(signals)] = Finished("path", <<>>))
    /\ [][(/\ pc = "r_row" /\ Undecodable(rows[idx]) /\ JsonLoadable(rows[idx].data)
            /\ canceled' = canceled) =>         \* a round of the loop
             /\ queued' = Append(queued, Descriptor(rows[idx]))
             /\ queue' = Append(queue, Descriptor(rows[idx]))
             /\ IsPlaceholderOf(Descriptor(rows[idx]), rows[idx])
             /\ pc' \in {"r_row", "done"}
             /\ cause' = "none"
             /\ (pc' = "done" /\ ~canceled) => idx = Len(rows)]_vars

\* the first of two rows is undecodable, the second was read after it
C15_Witness ==
    /\ UncancelledRead
    /\ worker
    /\ Len(rows) = 2
    /\ Undecodable(rows[1])
    /\ IsPlaceholderOf(queued[1], rows[1])
    /\ queued[2].type = "pixmap"
    /\ signals[Len(signals)] = Finished("path", <<>>)

\* ---------------------------------------------------------------- claim C16
\* The descriptors queued for the stored row n
QueuedFor(n) == {k \in 1..Len(queued) : queued[k].save_id = n}

BeginProcessingAt == {i \in 1..Len(signals) : signals[i].name = "begin_processing"}

\* C16: an uncancelled read() that succeeds queues exactly one descriptor
\* for each stored row of items, whatever its type and with or without a
\* blob, and reports begin_processing with the number of stored rows.
C16_OneDescriptorPerRow ==
    UncancelledRead =>
        /\ Len(queued) = Cardinality(DOMAIN file0.db.items)
        /\ \A n \in DOMAIN file0.db.items : Cardinality(QueuedFor(n)) = 1
        /\ worker => \A i \in BeginProcessingAt :
                         signals[i].arg = Cardinality(DOMAIN file0.db.items)

\* ---------------------------------------------------------------- claim C17
\* C17: write() on a readonly engine always ends with the failure outcome,
\* never runs the pipeline (neither a first time nor from scratch) and never
\* removes or changes the container file.
C17_ReadonlyWriteRefused ==
    (op = "write" /\ readonly) =>
        /\ file = file0
        /\ ~removed
        /\ attempts = 0 /\ ~retry /\ depth <= 1
        /\ conn = NoConn /\ log = <<>>
        /\ pc \in {"w_body", "h_except", "done"}
        /\ pc = "done" =>
               IF worker
               THEN signals = <<Finished("path", <<WriteReadonly.str>>)>> /\ raised = NoExc
               ELSE signals = <<>> /\ raised = BeeFileIOError(WriteReadonly.str)

\* a readonly engine with a worker was asked to write a scene with items
\* over an existing container, create_new set
C17_Witness ==
    /\ Ended("write") /\ readonly /\ worker /\ create_new
    /\ file0.exists /\ file0.db.items # EmptyFn
    /\ ItemsForSave(scene0) # <<>>
    /\ file = file0
    /\ signals = <<Finished("path", <<WriteReadonly.str>>)>>

\* ---------------------------------------------------------------- claim C18
\* The operation has ended and the rollback of the wrapper that ended it
\* had failed
EndedAfterFailedRollback ==
    /\ pc = "done"
    /\ log # <<>>
    /\ log[Len(log)] = RollbackFailed

\* C18: when the ROLLBACK of the failure recovery wrapper fails, that error
\* is ignored: the connection is closed and the original failure is
\* reported, by finished(filename, [error]) with a worker and by
\* BeeFileIOError without one.
C18_RollbackFailureIgnored ==
    EndedAfterFailedRollback =>
        /\ conn = NoConn
        /\ IF worker
           THEN /\ raised = NoExc
                /\ signals # <<>>
                /\ signals[Len(signals)] = Finished("path", <<cause>>)
           ELSE /\ raised.cls = "BeeFileIOError"
                /\ raised.msg = cause

\* ---------------------------------------------------------------- claim C19
\* The operation is the first of the run: no connection was open when it began
FirstOperation == nwrites + nreads = 1

\* C19: in every state after a read() or write() that ended in failure the
\* engine holds no connection, no cursor and no temporary directory, and no
\* connection opened in the operation is still open.
C19_NothingLeftOpen ==
    (EndedInFailure /\ FirstOperation) =>
        /\ ~conn.attr /\ ~conn.cursor /\ ~conn.tmpdir
        /\ nopen = 0

\* ---------------------------------------------------------------- claim C20
\* read() opened the container, _migrate ran at least one statement of
\* MIGRATIONS in its transaction and did not complete the migration
MigrationFailedInRead ==
    /\ op = "read"
    /\ MigrationBegun
    /\ Len(MigrationLog) >= 2
    /\ MigrationLog # CompleteMigration(file0.db.version)

\* Shape, version and rows of the container are those it had before the open
StoredAsBefore ==
    /\ file.exists /\ ~removed
    /\ file.db.schema = file0.db.schema
    /\ file.db.version = file0.db.version
    /\ file.db.items = file0.db.items
    /\ file.db.sqlar = file0.db.sqlar

\* C20: when a migration step fails while read() opens a container, the
\* partial migration is undone (shape and version as before the open), the
\* read is ended by that failure (control is in the failure recovery
\* wrapper), read() does not go on with the unmigrated container (the open
\* does not return to it, nothing is queued), and the container is not
\* rebuilt.
C20_FailedMigrationEndsRead ==
    MigrationFailedInRead =>
        /\ StoredAsBefore
        /\ queued = <<>>
        /\ \A i \in 1..Len(log) : log[i] # "opened"
        /\ pc = "h_except"

\* ---------------------------------------------------------------- claim C21
\* read() of a container below the current version in a file that cannot
\* be written
ReadOfProtectedOld ==
    /\ op = "read"
    /\ file0.exists /\ file0.perm = "ro"
    /\ file0.db.valid /\ file0.db.version < USER_VERSION

\* C21: a read-only engine that finds an old version in a file it cannot
\* write migrates a temporary copy: the file at the path is the same
\* before, during and after the operation, the rows read are those of the
\* migrated copy (and, no disk failure given, the read succeeds), and the
\* temporary directory is gone once the engine is torn down.
C21_MigratesTemporaryCopy ==
    ReadOfProtectedOld =>
        /\ file = file0
        /\ pc = "r_row" =>
               /\ conn.target = "tmp" /\ conn.tmpdir /\ conn.open
               /\ conn.base = WriteMeta(Migrated(file0).db)
               /\ conn.base.version = USER_VERSION
        /\ (pc = "r_row" \/ (pc = "done" /\ cause = "none")) =>
               rows = SelectRows(Migrated(file0).db)
        /\ (pc = "done" /\ faults = 0) => cause = "none"
        /\ pc = "done" => (~conn.tmpdir /\ ~conn.attr /\ ~conn.cursor)

\* two pixmaps were read from the migrated copy of a protected version 1
\* container
C21_Witness ==
    /\ ReadOfProtectedOld
    /\ pc = "done" /\ cause = "none" /\ ~canceled
    /\ Len(queued) = 2
    /\ queued[1].data = JsonLoads(JsonObjectFilename(file0.db.items[1].legacy))
    /\ file = file0 /\ file.db.version = 1
    /\ ~conn.tmpdir


\* ---------------------------------------------------------------------- C22
\* the loop of write_data has been left with the cancellation flag set, at
\* item idx, and the write has not failed since
BrokenOffAt(k) ==
    /\ op = "write" /\ WriteCanceled
    /\ pc \in {"w_delete", "w_vacuum", "done"}
    /\ idx = k /\ k >= 1
    /\ pc = "done" => cause = "none"

\* the save id item p had when this attempt enumerated the items
IdAtEnumeration(p) == IF create_new THEN None ELSE scene0[p].save_id

\* row n holds what insert_item and update_item both write for the item it
RowAsWritten(n, it) ==
    /\ n \in StoredIds(file)
    /\ file.db.items[n].geom = it.geom
    /\ file.db.items[n].data = JsonDumps(it.doc)

\* C22: once the cancellation flag has been seen after item k of write_data,
\* the rows of items 1..k stay stored as written, no item after k is
\* inserted or updated, and write() ends with finished carrying an empty
\* error list.
C22_CancelledWriteKeepsRows ==
    \A k \in 1..MaxItems :
        BrokenOffAt(k) =>
            /\ \A j \in 1..k :
                   RowAsWritten(scene[to_save[j]].save_id, scene[to_save[j]])
            /\ \A j \in (k + 1)..Len(to_save) :
                   LET n == IdAtEnumeration(to_save[j])
                   IN  /\ scene[to_save[j]].save_id = n
                       /\ (n \in StoredIds(file) /\ n \in StoredIds(file0)) =>
                              file.db.items[n] = Migrated(file0).db.items[n]
            /\ StoredIds(file) \subseteq
                   (IF create_new THEN {} ELSE StoredIds(file0))
                       \cup {scene[to_save[j]].save_id : j \in 1..k}
            /\ pc = "done" =>
                   /\ signals # <<>>
                   /\ signals[Len(signals)] = Finished("path", <<>>)
                   /\ raised = NoExc

\* a write of two items, the second holding a stored id, cancelled after the
\* first, has ended
C22_Witness ==
    /\ BrokenOffAt(1)
    /\ pc = "done"
    /\ Len(to_save) = 2
    /\ ~create_new
    /\ scene0[to_save[1]].save_id # None
    /\ scene0[to_save[2]].save_id = None
    /\ file.db.items[scene[to_save[1]].save_id].geom # file0.db.items[scene[to_save[1]].save_id].geom


\* ---------------------------------------------------------------------- C23
\* C23: an engine has at most one open connection in every reachable state;
\* a connection is closed before another takes its place (the fallback to
\* the temporary copy, the reconnect after a failed migration, the reopening
\* for the retry from scratch).  Counted for the first engine of a run, so
\* that every open connection is one of this engine.
C23_AtMostOneOpenConnection ==
    nwrites + nreads <= 1 => nopen <= 1


\* ---------------------------------------------------------------------- C24
\* the operation has thrown and the engine never got a connection: the
\* connection could not be established
FailedToConnect ==
    /\ op \in {"read", "write"}
    /\ pc \in {"w_except", "h_except"}
    /\ ~conn.attr /\ ~retry
    /\ exc # WriteReadonly

\* the next step opens a file that is no container (create_new unset)
OpensNonContainer ==
    /\ pc \in {"w_data", "r_query"}
    /\ ~conn.attr /\ ~create_new
    /\ file.exists /\ ~file.db.valid

\* C24: when the connection cannot be established (file inaccessible,
\* permission denied, no valid container) read() and write() end with the
\* failure outcome after one attempt: there is no retry, and the file at the
\* path is neither deleted nor replaced.
C24_ConnectionFailureIsFinal ==
    [][ pc' # pc =>
          /\ FailedToConnect =>
                /\ pc' \in {"h_except", "done"}
                /\ attempts' = attempts
                /\ file' = file
                /\ pc' = "done" => EndedInFailure'
          /\ OpensNonContainer =>
                /\ pc' \in {"w_except", "h_except"}
                /\ file' = file
      ]_vars


\* ---------------------------------------------------------------------- C25
\* positions of the signals of the given name among those of the operation
SignalsAt(name) == {i \in 1..Len(signals) : signals[i].name = name}

UnknownTags(q) == {k \in 1..Len(q) : q[k].type \notin item_registry}

\* error items of the scene the write() began with that stand for a stored
\* row of a type item_registry lacks
UnknownRowItems ==
    {p \in 1..Len(scene0) :
        /\ scene0[p].kind = "error"
        /\ scene0[p].orig \in StoredIds(file0)
        /\ file0.db.items[scene0[p].orig].type \notin item_registry}

\* C26: add_queued_items turns a descriptor whose type tag is not in
\* item_registry into an error item whose original_save_id is the
\* descriptor's save_id, and adds an item for every queued descriptor (it
\* does not fail on an unknown tag); a later write() to the container leaves
\* the row of such an item and its blob stored.
C26_UnknownTagPlaceholder ==
    /\ [][(queue # <<>> /\ queue' = <<>>) =>
             /\ Len(scene') = Len(scene) + Len(queue)
             /\ \A k \in UnknownTags(queue) :
                    /\ scene'[Len(scene) + k].kind = "error"
                    /\ scene'[Len(scene) + k].orig = queue[k].save_id
                    /\ ~Saveable(scene'[Len(scene) + k])
         ]_vars
    /\ [](InPlaceWrite =>
             \A p \in UnknownRowItems :
                 SameRecord(scene0[p].orig, file, file0))

\* a container with a row of unknown type was read, its descriptor became an
\* error item, and a write() to the container has ended that deleted another
\* row and kept that one
C26_Witness ==
    /\ Ended("write") /\ InPlaceWrite /\ cause = "none"
    /\ nreads = 1
    /\ UnknownRowItems # {}
    /\ StoredIds(file0) \ StoredIds(file) # {}


\* ---------------------------------------------------------------------- C27
\* C27: _close_connection is idempotent.  In whatever state the engine is
\* (never connected, connected, connected to a temporary copy, after a
\* failure), after the first call no connection, cursor or temporary
\* directory is held and nothing is raised, and a further call changes
\* nothing; once an operation has ended the engine is in that state.
C27_CloseIdempotent ==
    LET once == CloseConnection(World)
    IN  /\ ~once.conn.attr /\ ~once.conn.cursor /\ ~once.conn.tmpdir
        /\ ~Failed(once)
        /\ once.file = file /\ once.scene = scene
        /\ CloseConnection(once) = once
        /\ CloseConnection(CloseConnection(once)) = once
        /\ pc = "done" => (once.conn = conn /\ once.nopen = nopen)

\* teardown is about to run a first time on an engine that failed while it
\* held a connection to a temporary copy and the temporary directory
C27_Witness ==
    /\ pc = "h_except" /\ exc # NoExc
    /\ conn.attr /\ conn.open /\ conn.cursor /\ conn.tmpdir
    /\ conn.target = "tmp"
    /\ CloseConnection(World) # World


\* ---------------------------------------------------------------------- C28
\* saveable items of the scene the write() began with whose save id has no
\* stored row in the container at the path
StaleItems ==
    {p \in 1..Len(scene0) :
        /\ Saveable(scene0[p]) /\ scene0[p].save_id # None
        /\ scene0[p].save_id \notin StoredIds(file0)}

\* a write() on a writable engine to a writable container has ended; it was
\* not cancelled and met no failure of the disk
StaleWriteEnded ==
    /\ Ended("write") /\ ~readonly /\ ~canceled /\ faults = 0
    /\ file0.exists /\ file0.perm = "rw" /\ file0.db.valid
    /\ StaleItems # {}

CreateNewWrite ==
    /\ op = "write" /\ create_new /\ ~readonly
    /\ pc \in {"w_data", "w_item", "w_delete", "w_vacuum"}

\* the items the write() had in the scene, as they are now (items queued by
\* an earlier read() may have been added behind them since)
WrittenScene == SubSeq(scene, 1, Len(scene0))

LoadFailed ==
    /\ Ended("read") /\ worker
    /\ \E i \in FinishedAt : signals[i].errors # <<>>

\* C30: after a load started from the view has finished with errors,
\* view.filename is not the name of the file that failed to load, whether
\* the load came from the Open dialog, a recent-file entry or the command
\* line; Save then does not write to that file.
C30_FailedLoadLeavesNoFilename ==
    LoadFailed => view_filename # "path"


\* ---------------------------------------------------------------------- C35
\* read() on a container whose stored version is USER_VERSION or above
ReadOfCurrent ==
    /\ op = "read"
    /\ file0.exists /\ file0.db.valid
    /\ file0.db.version >= USER_VERSION

\* what the connection handling of a read() may do without writing
ReadOnlyEvents == {"connect", UserVersionQuery, "opened"}

\* C35: read() on a container whose stored version is current writes
\* nothing: in every state of the operation, and after it has succeeded,
\* been cancelled or failed, the file (rows, blobs, version, application id)
\* is as it was before; no pragma is written, no transaction is begun and no
\* temporary copy is made.
C35_ReadOfCurrentWritesNothing ==
    ReadOfCurrent =>
        /\ file = file0
        /\ \A i \in 1..Len(log) : log[i] \in ReadOnlyEvents
        /\ ~conn.intxn /\ ~conn.tmpdir /\ conn.target = "path"
        /\ ~removed

\* a read() of a current container with rows has failed after its queries
\* began (a failing SELECT)
C35_Witness ==
    /\ ReadOfCurrent /\ Ended("read")
    /\ EndedInFailure
    /\ cause = IOError.str
    /\ StoredIds(file0) # {} /\ BlobIds(file0) # {}
    /\ file = file0


\* ---------------------------------------------------------------- C32
\* a round of load_images that starts with the canceled flag set
RoundUnderCancel ==
    /\ op = "load_images" /\ pc = "l_file"
    /\ canceled
    /\ done_items' = done_items + 1

\* C32: in load_images, once the canceled flag is set, at most the file
\* being processed is completed: the round that runs with the flag set is
\* the last one, so after it the loop is left or no file name remains,
\* whether the file of that round loaded or failed to load.
C32_CancelStopsLoading ==
    [][RoundUnderCancel => (pc' = "l_end" \/ idx' > Len(filenames))]_vars

\* ---------------------------------------------------------------- C33
\* the file names load_images has processed so far
Processed == SubSeq(filenames, 1, done_items)
Loads(name) == ~LoadImage(name).isNull
Fails(name) == LoadImage(name).isNull

\* C33: load_images emits begin_processing once, with the number of file
\* names, and finished exactly once, at its end, with an empty filename and
\* the names that failed to load; every processed name that loaded is
\* queued as exactly one selected item, which is part of the single
\* InsertItems command pushed at the end, and every processed name that did
\* not load is listed in errors: never both, never neither.
C33_LoadImagesAccounts ==
    op = "load_images" =>
        /\ {i \in 1..Len(signals) : signals[i].name = "begin_processing"} = {1}
        /\ signals[1].arg = Len(filenames)
        /\ errors = SelectSeq(Processed, Fails)
        /\ [k \in 1..Len(items) |-> items[k].filename] = SelectSeq(Processed, Loads)
        /\ queue = [k \in 1..Len(items) |-> ItemLater(items[k], TRUE)]
        /\ IF pc = "done"
           THEN /\ {i \in 1..Len(signals) : signals[i].name = "finished"} = {Len(signals)}
                /\ signals[Len(signals)] = Finished("", errors)
                /\ undo_stack = <<InsertItems(items)>>
           ELSE /\ {i \in 1..Len(signals) : signals[i].name = "finished"} = {}
                /\ undo_stack = <<>>

C33_Witness ==
    /\ op = "load_images" /\ pc = "done"
    /\ Len(filenames) = MaxFiles
    /\ Len(errors) = 1 /\ Len(items) = 2
    /\ Len(undo_stack[1].items) = 2
    /\ ~canceled

\* ---------------------------------------------------------------- C31
\* the file the user was asked about last
AskedFile ==
    LET at == SignalsAt("user_input_required")
    IN signals[CHOOSE i \in at : \A j \in at : j <= i].arg

\* the round of a resumed export() for the item it had stopped at, with the
\* user's answer in handle_existing and no file operation failing
ResumedRound ==
    /\ op = "export" /\ pc = "e_item"
    /\ SignalsAt("user_input_required") # {}
    /\ idx = exporter.start_from + 1
    /\ exporter.handle_existing # "None"
    /\ ~canceled
    /\ Len(signals') > Len(signals)
    /\ faults' = faults

\* C31: when export() has stopped to ask about an existing file F and is run
\* again after the user's answer, the file name computed for the resumed
\* item is again F, and a one-shot answer ('skip' or 'overwrite') is applied
\* to F and is reset before the next item is considered; for items with and
\* without a save identity.
C31_ResumedItemSameFile ==
    [][ResumedRound =>
          /\ filename' = AskedFile
          /\ exporter.handle_existing \in {"skip", "overwrite"}
                => exporter'.handle_existing = "None"
          /\ exporter.handle_existing = "skip" => written' = written
          /\ exporter.handle_existing = "overwrite"
                => /\ Len(written') = Len(written) + 1
                   /\ written'[Len(written')].path = AskedFile]_vars

\* ---------------------------------------------------------------- C34
\* a round of export() that meets an existing target file with no answer
\* pending (and no failing file operation)
MeetsExisting ==
    /\ op = "export" /\ pc = "e_item"
    /\ idx <= Len(exporter.items)
    /\ ~canceled
    /\ Len(signals') > Len(signals)
    /\ faults' = faults
    /\ exporter.handle_existing = "None"
    /\ filename' \in dir

ExportedInOrder ==
    \A k \in 1..Len(written) : \A l \in 1..Len(written) :
        k < l => written[k].item < written[l].item

\* C34: an export() run that meets an existing target file with no answer
\* pending writes nothing for that item, records its index as start_from,
\* emits user_input_required and does not emit finished; across the runs of
\* one export no item before start_from is written again, no existing file
\* is overwritten under 'skip' or 'skip_all', and finished is emitted once,
\* by the run that reaches the last item, is cancelled or fails.
C34_ExportStopsAndResumes ==
    /\ [][MeetsExisting =>
             /\ pc' = "e_ask"
             /\ dir' = dir /\ written' = written
             /\ exporter'.start_from = idx - 1
             /\ signals'[Len(signals')] = Sig("user_input_required", filename', <<>>)
             /\ SignalsAt("finished")' = {}]_vars
    /\ [](op = "export" =>
             /\ ExportedInOrder
             /\ pc = "e_ask" =>
                   \A k \in 1..Len(written) : written[k].item < exporter.start_from
             /\ pc = "e_item" =>
                   \A k \in 1..Len(written) : written[k].item < idx - 1
             /\ \A k \in 1..Len(written) :
                   written[k].existed => written[k].answer \in {"overwrite", "overwrite_all"}
             /\ IF pc = "done" THEN SignalsAt("finished") = {Len(signals)}
                               ELSE SignalsAt("finished") = {})
    /\ [][(op = "export" /\ SignalsAt("finished")' # {} /\ SignalsAt("finished") = {}) =>
             \/ idx > Len(exporter.items)
             \/ canceled
             \/ faults' > faults]_vars

C34_Witness ==
    /\ op = "export" /\ pc = "done"
    /\ Cardinality(SignalsAt("user_input_required")) = 2
    /\ Len(written) = 1
    /\ written[1].item = 0
    /\ dir # {}
    /\ ~canceled /\ faults = 0
    /\ exporter.start_from = 1
====
